---------------------------- MODULE Spec2Model ----------------------------
(***************************************************************************)
(* Model of the project file cleanup utility (src/project-cleanup.cjs) and *)
(* of the project structure analyzer (src/unnamed/part_002).               *)
(*                                                                         *)
(* A path is a sequence of names relative to process.cwd(); the file       *)
(* system is a function from the existing paths to their entries.  The     *)
(* functions that look inside a name (path.extname, String.toLowerCase,    *)
(* the essential regular expressions, the parsing and formatting of the    *)
(* dates that name the backup partitions) work on its characters, a        *)
(* sequence of one-character strings, as the code does.                    *)
(***************************************************************************)
EXTENDS Integers, Sequences, FiniteSets, TLC

(***************************************************************************)
(* Characters and strings                                                  *)
(***************************************************************************)
UpperChars == <<"A", "B", "C", "D", "E", "F", "G", "H", "I", "J", "K", "L", "M",
                "N", "O", "P", "Q", "R", "S", "T", "U", "V", "W", "X", "Y", "Z">>

LowerChars == <<"a", "b", "c", "d", "e", "f", "g", "h", "i", "j", "k", "l", "m",
                "n", "o", "p", "q", "r", "s", "t", "u", "v", "w", "x", "y", "z">>

DigitChars == <<"0", "1", "2", "3", "4", "5", "6", "7", "8", "9">>

\* String.prototype.toLowerCase on one character, then on a string.
LowerChar(c) ==
  IF \E i \in 1..Len(UpperChars) : UpperChars[i] = c
  THEN LowerChars[CHOOSE i \in 1..Len(UpperChars) : UpperChars[i] = c]
  ELSE c

toLowerCase(s) == [i \in 1..Len(s) |-> LowerChar(s[i])]

\* The literal lit occurs in s at position p.
OccursAt(lit, s, p) ==
  /\ p >= 1
  /\ p + Len(lit) - 1 <= Len(s)
  /\ \A i \in 1..Len(lit) : s[p + i - 1] = lit[i]

(***************************************************************************)
(* Regular expressions of the configuration.  Every essential pattern has  *)
(* the shape  ^? (alt | alt | ...) $?  where an alternative is a sequence  *)
(* of literals separated by ".*".  RegExp.prototype.test looks for a match *)
(* anywhere in the string unless the pattern is anchored.                  *)
(***************************************************************************)
RECURSIVE MatchParts(_, _, _, _, _)
MatchParts(parts, s, from, anchored, atEnd) ==
  IF parts = <<>>
  THEN (~atEnd) \/ from = Len(s) + 1
  ELSE \E p \in (IF anchored THEN {from} ELSE from..(Len(s) + 1)) :
         /\ OccursAt(Head(parts), s, p)
         /\ MatchParts(Tail(parts), s, p + Len(Head(parts)), FALSE, atEnd)

RegExpTest(pattern, s) ==
  \E alt \in pattern.alts : MatchParts(alt, s, 1, pattern.start, pattern.end)

(***************************************************************************)
(* Names.  A file or directory name is a string; Spelling gives the        *)
(* characters of every name that occurs, for the functions that look       *)
(* inside a name, and nameOf the name a sequence of characters spells.     *)
(***************************************************************************)
Spelling ==
  ".env.log" :> <<".", "e", "n", "v", ".", "l", "o", "g">> @@
  ".file-backup" :> <<".", "f", "i", "l", "e", "-", "b", "a", "c", "k", "u", "p">> @@
  "2024-01-01" :> <<"2", "0", "2", "4", "-", "0", "1", "-", "0", "1">> @@
  "2024-01-05" :> <<"2", "0", "2", "4", "-", "0", "1", "-", "0", "5">> @@
  "2024-01-06" :> <<"2", "0", "2", "4", "-", "0", "1", "-", "0", "6">> @@
  "2024-01-20" :> <<"2", "0", "2", "4", "-", "0", "1", "-", "2", "0">> @@
  "App.tsx" :> <<"A", "p", "p", ".", "t", "s", "x">> @@
  "backend" :> <<"b", "a", "c", "k", "e", "n", "d">> @@
  "busy.log" :> <<"b", "u", "s", "y", ".", "l", "o", "g">> @@
  "cache" :> <<"c", "a", "c", "h", "e">> @@
  "components" :> <<"c", "o", "m", "p", "o", "n", "e", "n", "t", "s">> @@
  "config" :> <<"c", "o", "n", "f", "i", "g">> @@
  "contexts" :> <<"c", "o", "n", "t", "e", "x", "t", "s">> @@
  "controllers" :> <<"c", "o", "n", "t", "r", "o", "l", "l", "e", "r", "s">> @@
  "database" :> <<"d", "a", "t", "a", "b", "a", "s", "e">> @@
  "debug.LOG" :> <<"d", "e", "b", "u", "g", ".", "L", "O", "G">> @@
  "frontend" :> <<"f", "r", "o", "n", "t", "e", "n", "d">> @@
  "gone.log" :> <<"g", "o", "n", "e", ".", "l", "o", "g">> @@
  "hooks" :> <<"h", "o", "o", "k", "s">> @@
  "index.html" :> <<"i", "n", "d", "e", "x", ".", "h", "t", "m", "l">> @@
  "lib" :> <<"l", "i", "b">> @@
  "link" :> <<"l", "i", "n", "k">> @@
  "models" :> <<"m", "o", "d", "e", "l", "s">> @@
  "node_modules" :> <<"n", "o", "d", "e", "_", "m", "o", "d", "u", "l", "e", "s">> @@
  "notes" :> <<"n", "o", "t", "e", "s">> @@
  "old.bak" :> <<"o", "l", "d", ".", "b", "a", "k">> @@
  "pages" :> <<"p", "a", "g", "e", "s">> @@
  "public" :> <<"p", "u", "b", "l", "i", "c">> @@
  "routes" :> <<"r", "o", "u", "t", "e", "s">> @@
  "services" :> <<"s", "e", "r", "v", "i", "c", "e", "s">> @@
  "src" :> <<"s", "r", "c">> @@
  "tmp" :> <<"t", "m", "p">> @@
  "utils" :> <<"u", "t", "i", "l", "s">> @@
  "copy.tsx" :> <<"c", "o", "p", "y", ".", "t", "s", "x">> @@
  "package.json" :> <<"p", "a", "c", "k", "a", "g", "e", ".", "j", "s", "o", "n">> @@
  "x.DS_Store" :> <<"x", ".", "D", "S", "_", "S", "t", "o", "r", "e">>

chars(name) == Spelling[name]

nameOf(s) == CHOOSE name \in DOMAIN Spelling : Spelling[name] = s

(***************************************************************************)
(* path.basename, path.dirname, path.join and path.extname                 *)
(***************************************************************************)
basename(p) == p[Len(p)]

dirname(p) == SubSeq(p, 1, Len(p) - 1)

join(dir, item) == Append(dir, item)

\* path.extname: from the last "." of the base name to its end; empty when there
\* is no "." or when the only "." is the first character of the base name.
extname(p) ==
  LET name == chars(basename(p))
      dots == {i \in 1..Len(name) : name[i] = "."}
  IN  IF dots = {} THEN <<>>
      ELSE LET last == CHOOSE i \in dots : \A j \in dots : j <= i
           IN  IF last = 1 THEN <<>> ELSE SubSeq(name, last, Len(name))

(***************************************************************************)
(* Dates.  Time is counted in seconds since the epoch (the code counts     *)
(* milliseconds); a day has SecondsPerDay seconds.                         *)
(***************************************************************************)
SecondsPerDay == 86400

IsDigit(c) == \E i \in 1..10 : DigitChars[i] = c

DigitValue(c) == (CHOOSE i \in 1..10 : DigitChars[i] = c) - 1

RECURSIVE NumberOf(_)
NumberOf(s) ==
  IF s = <<>> THEN 0
  ELSE 10 * NumberOf(SubSeq(s, 1, Len(s) - 1)) + DigitValue(s[Len(s)])

\* n written with exactly w digits, padded with zeros.
RECURSIVE Digits(_, _)
Digits(n, w) ==
  IF w = 0 THEN <<>>
  ELSE Append(Digits(n \div 10, w - 1), DigitChars[(n % 10) + 1])

IsLeapYear(y) == (y % 4 = 0 /\ y % 100 # 0) \/ y % 400 = 0

DaysInMonth(y, m) ==
  IF m = 2 THEN (IF IsLeapYear(y) THEN 29 ELSE 28)
  ELSE IF m \in {4, 6, 9, 11} THEN 30 ELSE 31

\* Days from 1970-01-01 to the civil date y-m-d (proleptic Gregorian calendar):
\* the year is counted from March, in eras of 400 years.
DayOfMarchYear(m, d) == (153 * (IF m > 2 THEN m - 3 ELSE m + 9) + 2) \div 5 + d - 1

DayOfEra(yoe, doy) == yoe * 365 + yoe \div 4 - yoe \div 100 + doy

DaysFromMarchYear(yy, m, d) ==
  (yy \div 400) * 146097 + DayOfEra(yy % 400, DayOfMarchYear(m, d)) - 719468

DaysFromCivil(y, m, d) == DaysFromMarchYear(IF m <= 2 THEN y - 1 ELSE y, m, d)

\* The civil date of the day z days after 1970-01-01.
YearOfEra(doe) == (doe - doe \div 1460 + doe \div 36524 - doe \div 146096) \div 365

DayOfYear(doe, yoe) == doe - (365 * yoe + yoe \div 4 - yoe \div 100)

MonthOf(mp) == IF mp < 10 THEN mp + 3 ELSE mp - 9

CivilOfMonth(era, yoe, doy, mp) ==
  [y |-> yoe + era * 400 + (IF MonthOf(mp) <= 2 THEN 1 ELSE 0),
   m |-> MonthOf(mp),
   d |-> doy - (153 * mp + 2) \div 5 + 1]

CivilOfDayOfYear(era, yoe, doy) == CivilOfMonth(era, yoe, doy, (5 * doy + 2) \div 153)

CivilOfYearOfEra(era, doe, yoe) == CivilOfDayOfYear(era, yoe, DayOfYear(doe, yoe))

CivilOfDayOfEra(era, doe) == CivilOfYearOfEra(era, doe, YearOfEra(doe))

CivilFromDays(z) == CivilOfDayOfEra((z + 719468) \div 146097, (z + 719468) % 146097)

\* new Date(name) for a directory name: a date-only ISO string YYYY-MM-DD is
\* midnight UTC of that day; a name that is no date gives an invalid Date
\* (getTime() is NaN).
ParseYMD(y, m, d) ==
  IF m \in 1..12 /\ d >= 1 /\ d <= DaysInMonth(y, m)
  THEN [valid |-> TRUE, time |-> DaysFromCivil(y, m, d) * SecondsPerDay]
  ELSE [valid |-> FALSE, time |-> 0]

ParseDate(name) ==
  IF /\ Len(name) = 10
     /\ name[5] = "-" /\ name[8] = "-"
     /\ \A i \in {1, 2, 3, 4, 6, 7, 9, 10} : IsDigit(name[i])
  THEN ParseYMD(NumberOf(SubSeq(name, 1, 4)), NumberOf(SubSeq(name, 6, 7)),
                NumberOf(SubSeq(name, 9, 10)))
  ELSE [valid |-> FALSE, time |-> 0]

\* new Date().toISOString().split('T')[0] at time t: the UTC date as YYYY-MM-DD.
FormatYMD(c) ==
  Digits(c.y, 4) \o <<"-">> \o Digits(c.m, 2) \o <<"-">> \o Digits(c.d, 2)

ISODate(t) == FormatYMD(CivilFromDays(t \div SecondsPerDay))

(***************************************************************************)
(* Configuration: getDefaultConfig, the same values as the shipped         *)
(* cleanup-config.json.                                                    *)
(***************************************************************************)
\* Object.values(config.directories): frontend, backend, database, publicAssets.
directories == <<
  <<"src">>,
  <<"backend">>,
  <<"database">>,
  <<"public">> >>

\* /^\.env/, /config\.(js|ts|json)$/, /package(-lock)?\.json$/, /tsconfig.*\.json$/,
\* /README\.md$/, /\.gitignore$/, /server\.js$/, /vite\.config\.ts$/,
\* /tailwind\.config\.js$/, /postcss\.config\.js$/, /restart\.ps1$/
essentialPatterns == {
  [start |-> TRUE, end |-> FALSE, alts |-> {<<<<".", "e", "n", "v">>>>}],
  [start |-> FALSE, end |-> TRUE,
   alts |-> {<<<<"c", "o", "n", "f", "i", "g", ".", "j", "s">>>>, <<<<"c", "o", "n", "f", "i", "g", ".", "t", "s">>>>, <<<<"c", "o", "n", "f", "i", "g", ".", "j", "s", "o", "n">>>>}],
  [start |-> FALSE, end |-> TRUE,
   alts |-> {<<<<"p", "a", "c", "k", "a", "g", "e", ".", "j", "s", "o", "n">>>>, <<<<"p", "a", "c", "k", "a", "g", "e", "-", "l", "o", "c", "k", ".", "j", "s", "o", "n">>>>}],
  [start |-> FALSE, end |-> TRUE, alts |-> {<<<<"t", "s", "c", "o", "n", "f", "i", "g">>, <<".", "j", "s", "o", "n">>>>}],
  [start |-> FALSE, end |-> TRUE, alts |-> {<<<<"R", "E", "A", "D", "M", "E", ".", "m", "d">>>>}],
  [start |-> FALSE, end |-> TRUE, alts |-> {<<<<".", "g", "i", "t", "i", "g", "n", "o", "r", "e">>>>}],
  [start |-> FALSE, end |-> TRUE, alts |-> {<<<<"s", "e", "r", "v", "e", "r", ".", "j", "s">>>>}],
  [start |-> FALSE, end |-> TRUE, alts |-> {<<<<"v", "i", "t", "e", ".", "c", "o", "n", "f", "i", "g", ".", "t", "s">>>>}],
  [start |-> FALSE, end |-> TRUE, alts |-> {<<<<"t", "a", "i", "l", "w", "i", "n", "d", ".", "c", "o", "n", "f", "i", "g", ".", "j", "s">>>>}],
  [start |-> FALSE, end |-> TRUE, alts |-> {<<<<"p", "o", "s", "t", "c", "s", "s", ".", "c", "o", "n", "f", "i", "g", ".", "j", "s">>>>}],
  [start |-> FALSE, end |-> TRUE, alts |-> {<<<<"r", "e", "s", "t", "a", "r", "t", ".", "p", "s", "1">>>>}] }

essentialDirectories == {
  "node_modules",
  "src",
  "backend",
  "public",
  "controllers",
  "models",
  "routes",
  "config",
  "components",
  "contexts",
  "pages",
  "services",
  "hooks",
  "utils",
  "lib" }

artifactExtensions == {
  <<".", "l", "o", "g">>,
  <<".", "t", "m", "p">>,
  <<".", "t", "e", "m", "p">>,
  <<".", "D", "S", "_", "S", "t", "o", "r", "e">>,
  <<".", "b", "a", "k">>,
  <<"T", "h", "u", "m", "b", "s", ".", "d", "b">> }

accessThresholdDays == 30

backupDir == <<".file-backup">>

backupRetentionDays == 14

\* The hardcoded 'frontend' directory of runCleanup.
frontendDir == <<"frontend">>

\* getDefaultConfig().options
defaultOptions ==
  [promptBeforeDeletion |-> TRUE, removeEmptyDirectories |-> TRUE,
   removeEmptyFrontend |-> TRUE, createBackups |-> TRUE]

(***************************************************************************)
(* State                                                                   *)
(***************************************************************************)
VARIABLES
  config,     \* the configuration object, loaded once at start
  dryRun,     \* options.dryRun: no --delete flag on the command line
  now,        \* the clock (new Date()), in seconds since the epoch
  fs,         \* the file system below process.cwd(): path -> entry
  fs0,        \* history: the file system when the run started
  logFile,    \* the lines of config.logFile
  console,    \* the messages written to the console
  question,   \* readline's pending question and its callback, or NoQuestion
  rlOpen,     \* the readline interface has not been closed
  pc,         \* where the process is: start, scan, sweep, finish, waiting, exited
  roots,      \* the entries of config.directories runCleanup still has to scan
  stack,      \* the active scanDirectory calls: <<[dir, items]>>, innermost last
  exitCode,   \* the exit status once pc = "exited"
  proposed,   \* history: every call of handleFileDeletion/handleDirectoryDeletion
  removed,    \* history: every entry removed, and by which function
  answers,    \* history: the confirmation answers read, with the item asked about
  script,     \* the script that runs: "cleanup", "analyzer" or "launcher"
  configFile, \* cleanup-config.json: whether it exists, parses, and what it holds
  analysis,   \* the analyzer's analysis object
  fileHashes, \* the analyzer's fileHashes object: digest -> first path seen
  run,        \* the number of the run, for runs made one after the other
  previous,   \* history: the console output and the proposals of the run before
  logWritable, \* config.logFile can be appended to
  proc,       \* launcher: the child process of each service, as startService sees it
  ready,      \* launcher: startService's 'ready' of each service
  timeout,    \* launcher: the startup timer of each service
  elapsed,    \* launcher: the seconds since the startup timer of the service was set
  output      \* launcher: startService's 'output' of each service, the last chunk

vars == <<config, dryRun, now, fs, fs0, logFile, console, question, rlOpen, pc, roots,
          stack, exitCode, proposed, removed, answers, script, configFile, analysis,
          fileHashes, run, previous, logWritable, proc, ready, timeout, elapsed, output>>

\* What the analyzer alone writes.
analyzerVars == <<analysis, fileHashes>>

\* What a run of the cleanup tool leaves alone once it has started.
launcherVars == <<proc, ready, timeout, elapsed, output>>

startVars == <<script, configFile, run, previous, logWritable, launcherVars>>

\* The services of the development launcher.
ServiceNames == {"Backend API", "Frontend"}

\* No child process has been spawned for the service.
NoProcess == [state |-> "none", exitCode |-> <<>>]

\* The launcher has started no service.
LauncherIdle ==
  /\ proc = [n \in ServiceNames |-> NoProcess]
  /\ ready = [n \in ServiceNames |-> FALSE]
  /\ timeout = [n \in ServiceNames |-> "none"]
  /\ elapsed = [n \in ServiceNames |-> 0]
  /\ output = [n \in ServiceNames |-> <<>>]

NoQuestion == [kind |-> "none", path |-> <<>>, reason |-> ""]

\* The analysis object as the analyzer creates it.
emptyAnalysis ==
  [directoryStats |-> <<>>, fileTypes |-> <<>>, potentialDuplicates |-> <<>>,
   namingIssues |-> <<>>, unusedFiles |-> <<>>, largeFiles |-> <<>>]

\* No run was made before this one.
NoRun == [console |-> <<>>, proposed |-> <<>>]

\* null, for a backup path
null == <<>>

\* The part of the state the helper functions read and write.
World ==
  [fs |-> fs, logFile |-> logFile, console |-> console, question |-> question,
   proposed |-> proposed, removed |-> removed]

\* console.log / console.error
Say(w, msg, path, reason) ==
  [w EXCEPT !.console = Append(@, [msg |-> msg, path |-> path, reason |-> reason])]

(***************************************************************************)
(* The file system calls the tool makes                                    *)
(***************************************************************************)
DirEntry ==
  [kind |-> "dir", atime |-> 0, readable |-> TRUE, busy |-> FALSE, content |-> "",
   size |-> 0]

\* p is d or lies below d.
Under(p, d) == Len(p) >= Len(d) /\ SubSeq(p, 1, Len(d)) = d

Children(f, d) == {p \in DOMAIN f : Len(p) = Len(d) + 1 /\ Under(p, d)}

\* fs.existsSync follows symbolic links: false for a dangling link.
existsSync(f, p) == p \in DOMAIN f /\ f[p].kind # "dangling"

\* fs.statSync(p) throws for a dangling symbolic link (ENOENT).
statThrows(f, p) == p \notin DOMAIN f \/ f[p].kind = "dangling"

\* Names are listed in code-unit order.
AsciiOrder == <<"-", ".">> \o DigitChars \o UpperChars \o <<"_">> \o LowerChars

CharCode(c) == CHOOSE i \in 1..Len(AsciiOrder) : AsciiOrder[i] = c

RECURSIVE NameBefore(_, _)
NameBefore(a, b) ==
  IF a = <<>> THEN b # <<>>
  ELSE IF b = <<>> THEN FALSE
  ELSE IF a[1] = b[1] THEN NameBefore(Tail(a), Tail(b))
  ELSE CharCode(a[1]) < CharCode(b[1])

RECURSIVE SortNames(_)
SortNames(S) ==
  IF S = {} THEN <<>>
  ELSE LET first == CHOOSE a \in S : \A b \in S \ {a} : NameBefore(chars(a), chars(b))
       IN  <<first>> \o SortNames(S \ {first})

\* fs.readdirSync(d): the names of the entries of directory d.
readdirSync(f, d) == SortNames({basename(p) : p \in Children(f, d)})

\* fs.unlinkSync(p) and fs.rmdirSync(p) succeed on an entry that is not busy;
\* rmdirSync without {recursive} also needs the directory to be empty.
unlinkThrows(f, p) == p \notin DOMAIN f \/ f[p].busy

rmdirThrows(f, p) ==
  p \notin DOMAIN f \/ f[p].kind # "dir" \/ f[p].busy \/ Children(f, p) # {}

Without(f, p) == [q \in DOMAIN f \ {p} |-> f[q]]

\* fs.rmdirSync(d, { recursive: true })
WithoutTree(f, d) == [q \in {r \in DOMAIN f : ~Under(r, d)} |-> f[q]]

\* fs.mkdirSync(d, { recursive: true })
mkdirSync(f, d) ==
  [q \in DOMAIN f \cup {SubSeq(d, 1, k) : k \in 1..Len(d)} |->
     IF q \in DOMAIN f THEN f[q] ELSE DirEntry]

\* fs.copyFileSync(src, dest) throws when the source cannot be read.
copyThrows(f, src) == src \notin DOMAIN f \/ f[src].kind # "file" \/ ~f[src].readable

copyFileSync(f, src, dest) ==
  [q \in DOMAIN f \cup {dest} |->
     IF q = dest
     THEN [kind |-> "file", atime |-> now, readable |-> TRUE, busy |-> FALSE,
           content |-> f[src].content, size |-> f[src].size]
     ELSE f[q]]

(***************************************************************************)
(* utils                                                                   *)
(***************************************************************************)
isEssentialFile(filePath) ==
  \E pattern \in essentialPatterns : RegExpTest(pattern, chars(basename(filePath)))

isEssentialDirectory(dirPath) == basename(dirPath) \in config.essentialDirectories

isBuildArtifact(filePath) == toLowerCase(extname(filePath)) \in artifactExtensions

\* isRecentlyAccessed with a file aged exactly the threshold taken for recent.
isRecentlyAccessedAtThreshold(f, filePath) ==
  IF statThrows(f, filePath) THEN TRUE
  ELSE now - f[filePath].atime <= config.accessThresholdDays * SecondsPerDay

\* isRecentlyAccessed with a file whose statSync throws taken for stale.
isRecentlyAccessedUnlessError(f, filePath) ==
  IF statThrows(f, filePath) THEN FALSE
  ELSE now - f[filePath].atime < config.accessThresholdDays * SecondsPerDay

\* daysDifference < config.accessThresholdDays; true when statSync throws.
isRecentlyAccessed(f, filePath) ==
  IF statThrows(f, filePath) THEN TRUE
  ELSE now - f[filePath].atime < config.accessThresholdDays * SecondsPerDay

\* The backup path of filePath in today's partition.
backupPathOf(filePath) == join(backupDir, nameOf(ISODate(now))) \o filePath

\* if (!fs.existsSync(d)) fs.mkdirSync(d, { recursive: true })
ensureDir(f, d) == IF existsSync(f, d) THEN f ELSE mkdirSync(f, d)

\* The copy into the backup directories f holds: the backup path, or null and
\* an error message when the copy throws.
backupCopy(w, f, filePath, backupFilePath) ==
  IF copyThrows(f, filePath)
  THEN [w |-> Say([w EXCEPT !.fs = f], "Error backing up", filePath, ""),
        path |-> null]
  ELSE [w |-> [w EXCEPT !.fs = copyFileSync(f, filePath, backupFilePath)],
        path |-> backupFilePath]

\* The directories are made one after the other: the backup root, today's
\* partition, the directory of the copy.
backupInto(w, dateDirPath, filePath) ==
  backupCopy(w,
             ensureDir(ensureDir(ensureDir(w.fs, backupDir), dateDirPath),
                       dirname(dateDirPath \o filePath)),
             filePath, dateDirPath \o filePath)

\* utils.backupFile: [w: the state after it, path: the backup path or null].
backupFile(w, filePath) ==
  IF ~config.options.createBackups THEN [w |-> w, path |-> null]
  ELSE backupInto(w, join(backupDir, nameOf(ISODate(now))), filePath)

\* utils.logDeletion writing the log file anew instead of appending to it.
logDeletionOverwriting(w, filePath, reason, backupPath) ==
  IF logWritable
  THEN [w EXCEPT !.logFile =
          <<[time |-> now, path |-> filePath, reason |-> reason, backup |-> backupPath]>>]
  ELSE Say(w, "Error logging deletion", filePath, reason)

\* utils.logDeletion: one line appended to the log file; when the append
\* throws, the error is printed and nothing else happens.
logDeletion(w, filePath, reason, backupPath) ==
  IF logWritable
  THEN [w EXCEPT !.logFile =
          Append(@, [time |-> now, path |-> filePath, reason |-> reason,
                     backup |-> backupPath])]
  ELSE Say(w, "Error logging deletion", filePath, reason)

\* isExpired with the partition dated exactly at the retention boundary expired.
isExpiredAtBoundary(dateDir) ==
  /\ ParseDate(chars(dateDir)).valid
  /\ now - ParseDate(chars(dateDir)).time >= config.backupRetentionDays * SecondsPerDay

\* daysDifference > config.backupRetentionDays, for a partition that parses as a date.
isExpired(dateDir) ==
  /\ ParseDate(chars(dateDir)).valid
  /\ now - ParseDate(chars(dateDir)).time > config.backupRetentionDays * SecondsPerDay

RECURSIVE sweepPartitions(_, _)
sweepPartitions(w, backupDates) ==
  IF backupDates = <<>> THEN w
  ELSE LET dateDir == Head(backupDates)
           w1 == IF isExpired(dateDir)
                 THEN Say([w EXCEPT
                             !.fs = WithoutTree(@, join(backupDir, dateDir)),
                             !.removed = @ \cup {[path |-> join(backupDir, dateDir),
                                                  by |-> "cleanupOldBackups"]}],
                          "Removed old backup", join(backupDir, dateDir), "")
                 ELSE w
       IN  sweepPartitions(w1, Tail(backupDates))

\* cleanupOldBackups leaving the backup directory alone in a dry run.
cleanupOldBackupsUnlessDryRun(w) ==
  IF dryRun \/ ~config.options.createBackups THEN w
  ELSE IF ~existsSync(w.fs, backupDir) THEN w
  ELSE sweepPartitions(w, readdirSync(w.fs, backupDir))

\* utils.cleanupOldBackups
cleanupOldBackups(w) ==
  IF ~config.options.createBackups THEN w
  ELSE IF ~existsSync(w.fs, backupDir) THEN w
  ELSE sweepPartitions(w, readdirSync(w.fs, backupDir))

\* utils.isEmptyDir: false when readdirSync throws.
isEmptyDirIgnoringEntries(f, dirPath) ==
  dirPath \in DOMAIN f /\ f[dirPath].kind = "dir"

isEmptyDir(f, dirPath) ==
  IF dirPath \notin DOMAIN f \/ f[dirPath].kind # "dir" THEN FALSE
  ELSE Len(readdirSync(f, dirPath)) = 0

(***************************************************************************)
(* Deletion                                                                *)
(***************************************************************************)
\* deleteDirectory
deleteDirectory(w, dirPath, reason) ==
  IF rmdirThrows(w.fs, dirPath)
  THEN Say(w, "Error deleting directory", dirPath, reason)
  ELSE Say(logDeletion([w EXCEPT !.fs = Without(@, dirPath),
                                 !.removed = @ \cup {[path |-> dirPath,
                                                      by |-> "deleteDirectory"]}],
                       dirPath, reason, null),
           "Deleted directory", dirPath, reason)

\* The unlink and what follows it in deleteFile, b being what backupFile returned.
unlinkBackedUp(b, filePath, reason) ==
  IF unlinkThrows(b.w.fs, filePath)
  THEN Say(b.w, "Error deleting file", filePath, reason)
  ELSE IF b.path # null
  THEN Say(Say(logDeletion([b.w EXCEPT !.fs = Without(@, filePath),
                                       !.removed = @ \cup {[path |-> filePath,
                                                            by |-> "deleteFile"]}],
                           filePath, reason, b.path),
               "Deleted file", filePath, reason),
           "Backup created at", b.path, "")
  ELSE Say(logDeletion([b.w EXCEPT !.fs = Without(@, filePath),
                                   !.removed = @ \cup {[path |-> filePath,
                                                        by |-> "deleteFile"]}],
                       filePath, reason, null),
           "Deleted file", filePath, reason)

\* deleteFile with the unlink made before the backup.
deleteFileUnlinkFirst(w, filePath, reason) ==
  backupFile(unlinkBackedUp([w |-> Say(w, "Deleting file", filePath, reason),
                             path |-> null],
                            filePath, reason),
             filePath).w

\* deleteFile giving up the unlink when the backup that was asked for failed.
deleteFileOnlyBackedUp(w, filePath, reason) ==
  IF /\ config.options.createBackups
     /\ backupFile(Say(w, "Deleting file", filePath, reason), filePath).path = null
  THEN backupFile(Say(w, "Deleting file", filePath, reason), filePath).w
  ELSE unlinkBackedUp(backupFile(Say(w, "Deleting file", filePath, reason), filePath),
                      filePath, reason)

\* deleteFile: the backup first, then the unlink, whatever the backup returned.
deleteFile(w, filePath, reason) ==
  unlinkBackedUp(backupFile(Say(w, "Deleting file", filePath, reason), filePath),
                 filePath, reason)

\* rl.question(query, callback): readline keeps one question; while one is
\* pending, a further call only shows the pending prompt again and its callback
\* is not kept.
rlQuestion(w, q) ==
  IF w.question # NoQuestion
  THEN Say(w, "prompt", w.question.path, w.question.reason)
  ELSE Say([w EXCEPT !.question = q], "prompt", q.path, q.reason)

Propose(w, kind, path, reason) ==
  [w EXCEPT !.proposed = Append(@, [kind |-> kind, path |-> path, reason |-> reason])]

\* handleDirectoryDeletion
handleDirectoryDeletion(w, dirPath, reason) ==
  LET w1 == Propose(w, "dir", dirPath, reason)
  IN  IF dryRun THEN Say(w1, "Would delete directory (dry run)", dirPath, reason)
      ELSE IF config.options.promptBeforeDeletion
      THEN rlQuestion(w1, [kind |-> "dir", path |-> dirPath, reason |-> reason])
      ELSE deleteDirectory(w1, dirPath, reason)

\* handleFileDeletion
handleFileDeletion(w, filePath, reason) ==
  LET w1 == Propose(w, "file", filePath, reason)
  IN  IF dryRun THEN Say(w1, "Would delete (dry run)", filePath, reason)
      ELSE IF config.options.promptBeforeDeletion
      THEN rlQuestion(w1, [kind |-> "file", path |-> filePath, reason |-> reason])
      ELSE deleteFile(w1, filePath, reason)

\* isYes with every answer but 'n' taken for a confirmation.
isYesUnlessNo(answer) == toLowerCase(answer) # <<"n">>

\* The test of the confirmation callbacks: answer.toLowerCase() === 'y'
isYes(answer) == toLowerCase(answer) = <<"y">>

\* The callback given to rl.question, run with the line that was read.
questionCallback(w, q, answer) ==
  IF isYes(answer)
  THEN (IF q.kind = "file" THEN deleteFile(w, q.path, q.reason)
        ELSE deleteDirectory(w, q.path, q.reason))
  ELSE Say(w, IF q.kind = "file" THEN "Keeping file" ELSE "Keeping directory",
           q.path, q.reason)

(***************************************************************************)
(* Inputs: the project tree, the backup partitions, the configuration, the *)
(* clock and the answers typed at the prompt.                              *)
(***************************************************************************)
\* At most MaxFiles files in the project tree; at most MaxPartitions entries in
\* the backup directory when the run starts; at most MaxConfigChanges settings
\* of the configuration differ from the shipped ones.
MaxFiles == 2

MaxPartitions == 2

MaxConfigChanges == 1

\* 2024-01-20, at 00:00:00 and at 10:00:00 UTC.
Midnight == DaysFromCivil(2024, 1, 20) * SecondsPerDay

NowChoices == {Midnight, Midnight + 10 * 3600}

\* Days since the last access of a file: recent, exactly the threshold, old.
AgeChoices == {1, accessThresholdDays, 40}

AnswerChoices == {<<"y">>, <<"Y">>, <<"n">>, <<>>, <<"y", "e", "s">>}

SrcDir == <<"src">>

BackendDir == <<"backend">>

\* The directories of the project tree: src with an essential subdirectory and
\* a temporary one holding an empty directory, backend, public and frontend;
\* config.directories also names database, which does not exist.
ProjectDirs == {
  SrcDir,
  join(SrcDir, "components"),
  join(SrcDir, "tmp"),
  join(join(SrcDir, "tmp"), "cache"),
  BackendDir,
  <<"public">>,
  frontendDir }

\* The files a project tree may hold: where, what statSync finds, the possible
\* ages, and whether the file can be read and unlinked.
CandidateFiles == {
  [path |-> join(SrcDir, ".env.log"), kind |-> "file", ages |-> {1, 40},
   readable |-> TRUE, busy |-> FALSE],
  [path |-> join(SrcDir, "debug.LOG"), kind |-> "file", ages |-> {1, 40},
   readable |-> TRUE, busy |-> FALSE],
  [path |-> join(SrcDir, "x.DS_Store"), kind |-> "file", ages |-> {1, 40},
   readable |-> TRUE, busy |-> FALSE],
  [path |-> join(join(SrcDir, "components"), "App.tsx"), kind |-> "file",
   ages |-> AgeChoices, readable |-> TRUE, busy |-> FALSE],
  [path |-> join(BackendDir, "link"), kind |-> "dangling", ages |-> {40},
   readable |-> FALSE, busy |-> FALSE],
  [path |-> join(BackendDir, "old.bak"), kind |-> "file", ages |-> {40},
   readable |-> FALSE, busy |-> FALSE],
  [path |-> join(BackendDir, "busy.log"), kind |-> "file", ages |-> {40},
   readable |-> TRUE, busy |-> TRUE],
  [path |-> join(frontendDir, "index.html"), kind |-> "file", ages |-> {1},
   readable |-> TRUE, busy |-> FALSE] }

\* The names the backup directory may hold: partitions of 19, 15, 14 and 0 days
\* before 2024-01-20, and a directory that is not named after a date.
CandidatePartitions == {
  "2024-01-01",
  "2024-01-05",
  "2024-01-06",
  "2024-01-20",
  "notes" }

FileSets == {F \in SUBSET CandidateFiles : Cardinality(F) <= MaxFiles}

PartitionSets == {P \in SUBSET CandidatePartitions : Cardinality(P) <= MaxPartitions}

AgeMaps(F) == {a \in [F -> AgeChoices] : \A c \in F : a[c] \in c.ages}

\* A partition left by an earlier run: the backup of src/gone.log.
PartitionPaths(P) ==
  UNION {{join(backupDir, d), join(join(backupDir, d), "src"),
          join(join(join(backupDir, d), "src"), "gone.log")} : d \in P}

\* The file system with the files F of ages a and the partitions P, at time t.
BuildFs(F, a, P, t) ==
  LET files == {c.path : c \in F}
      parts == PartitionPaths(P)
      bdir  == IF P = {} THEN {} ELSE {backupDir}
      fileOf(q) == CHOOSE c \in F : c.path = q
  IN  [q \in ProjectDirs \cup files \cup bdir \cup parts |->
         IF q \in files
         THEN [kind |-> fileOf(q).kind, atime |-> t - a[fileOf(q)] * SecondsPerDay,
               readable |-> fileOf(q).readable, busy |-> fileOf(q).busy,
               content |-> basename(q), size |-> 1]
         ELSE IF q \in parts /\ Len(q) = 4
         THEN [kind |-> "file", atime |-> t, readable |-> TRUE, busy |-> FALSE,
               content |-> basename(q), size |-> 1]
         ELSE DirEntry]

OptionChoices ==
  [promptBeforeDeletion : BOOLEAN, removeEmptyDirectories : BOOLEAN,
   removeEmptyFrontend : BOOLEAN, createBackups : BOOLEAN]

\* The number of settings in which configuration c differs from the shipped one.
ConfigChanges(c) ==
  Cardinality({k \in DOMAIN defaultOptions : c.options[k] # defaultOptions[k]})
  + (IF c.essentialDirectories # essentialDirectories THEN 1 ELSE 0)

\* The configuration: the shipped one with at most MaxConfigChanges settings
\* changed, among the four options and 'frontend' added to the essential
\* directories.
ConfigChoices ==
  {c \in [directories : {directories},
          essentialDirectories : {essentialDirectories,
                                  essentialDirectories \cup {"frontend"}},
          accessThresholdDays : {accessThresholdDays},
          backupRetentionDays : {backupRetentionDays},
          options : OptionChoices] :
     ConfigChanges(c) <= MaxConfigChanges}

\* The state once the script has loaded: configuration read, readline created.
Loaded ==
  /\ logFile = <<>>
  /\ console = <<>>
  /\ question = NoQuestion
  /\ rlOpen = TRUE
  /\ pc = "start"
  /\ roots = <<>>
  /\ stack = <<>>
  /\ exitCode = -1
  /\ fs0 = fs
  /\ proposed = <<>>
  /\ removed = {}
  /\ answers = <<>>
  /\ script = "cleanup"
  /\ configFile = [exists |-> TRUE, parses |-> TRUE, data |-> config]
  /\ analysis = emptyAnalysis
  /\ fileHashes = <<>>
  /\ run = 1
  /\ previous = NoRun

\* Any project tree of at most MaxFiles files, any configuration, either mode;
\* one old partition in the backup directory; the clock at 10:00.
Init ==
  /\ now = Midnight + 10 * 3600
  /\ config \in ConfigChoices
  /\ dryRun \in BOOLEAN
  /\ \E F \in FileSets : \E a \in AgeMaps(F) :
       fs = BuildFs(F, a, {"2024-01-01"}, now)
  /\ logWritable = TRUE
  /\ LauncherIdle
  /\ Loaded

\* The tree used to exercise the retention sweep: an artifact and a dangling link.
SweepFiles ==
  {c \in CandidateFiles :
     c.path \in {join(SrcDir, "debug.LOG"), join(BackendDir, "link")}}

\* Any backup directory of at most MaxPartitions entries and either clock, with
\* the shipped configuration but for the prompt and backup options.
InitSweep ==
  /\ now \in NowChoices
  /\ config \in {c \in ConfigChoices :
                   /\ c.essentialDirectories = essentialDirectories
                   /\ c.options.removeEmptyDirectories
                   /\ c.options.removeEmptyFrontend}
  /\ dryRun \in BOOLEAN
  /\ \E P \in PartitionSets : \E a \in AgeMaps(SweepFiles) :
       fs = BuildFs(SweepFiles, a, P, now)
  /\ logWritable = TRUE
  /\ LauncherIdle
  /\ Loaded

(***************************************************************************)
(* scanDirectory                                                           *)
(***************************************************************************)
\* classifyFile with the artifact rule tested before the essential patterns.
classifyFileArtifactFirst(f, itemPath) ==
  IF isBuildArtifact(itemPath) THEN "Build artifact"
  ELSE IF isEssentialFile(itemPath) THEN "essential"
  ELSE IF ~isRecentlyAccessed(f, itemPath) THEN "Not recently accessed"
  ELSE "keep"

\* classifyFile with the files of an essential directory treated as essential.
classifyFileProtectingDirectory(f, itemPath) ==
  IF isEssentialFile(itemPath) \/ isEssentialDirectory(dirname(itemPath))
  THEN "essential"
  ELSE IF isBuildArtifact(itemPath) THEN "Build artifact"
  ELSE IF ~isRecentlyAccessed(f, itemPath) THEN "Not recently accessed"
  ELSE "keep"

\* classifyFile without the test of the last access.
classifyFileWhateverTheAccess(f, itemPath) ==
  IF isEssentialFile(itemPath) THEN "essential"
  ELSE IF isBuildArtifact(itemPath) THEN "Build artifact"
  ELSE "Not recently accessed"

\* The branch scanDirectory takes for a file.
classifyFile(f, itemPath) ==
  IF isEssentialFile(itemPath) THEN "essential"
  ELSE IF isBuildArtifact(itemPath) THEN "Build artifact"
  ELSE IF ~isRecentlyAccessed(f, itemPath) THEN "Not recently accessed"
  ELSE "keep"

\* isRemovableDirectory with the emptiness tested before the directory is scanned.
isRemovableDirectoryBeforeScan(f, itemPath) ==
  /\ config.options.removeEmptyDirectories
  /\ ~isEssentialDirectory(itemPath)
  /\ isEmptyDir(fs0, itemPath)

\* The test made on a subdirectory once it has been scanned.
isRemovableDirectory(f, itemPath) ==
  /\ config.options.removeEmptyDirectories
  /\ ~isEssentialDirectory(itemPath)
  /\ isEmptyDir(f, itemPath)

Top == stack[Len(stack)]

Commit(w) ==
  /\ fs' = w.fs
  /\ logFile' = w.logFile
  /\ console' = w.console
  /\ question' = w.question
  /\ proposed' = w.proposed
  /\ removed' = w.removed

\* runCleanup up to its loop over config.directories.
RunCleanupStart ==
  /\ pc = "start"
  /\ pc' = "scan"
  /\ roots' = config.directories
  /\ Commit(Say(World, "Starting project cleanup", <<>>, ""))
  /\ UNCHANGED <<analyzerVars, startVars, config, dryRun, now, fs0,
                 rlOpen, stack, exitCode, answers>>

\* scanDirectory(dir) called by runCleanup: a directory that does not exist, or
\* cannot be listed, is reported and the call returns.
ScanRoot ==
  /\ pc = "scan" /\ stack = <<>> /\ roots # <<>>
  /\ LET dir == Head(roots)
         w1  == Say(World, "Scanning directory", dir, "")
     IN  IF ~existsSync(fs, dir)
         THEN /\ Commit(Say(w1, "Directory does not exist", dir, ""))
              /\ roots' = Tail(roots)
              /\ stack' = stack
         ELSE IF fs[dir].kind # "dir"
         THEN /\ Commit(Say(w1, "Error scanning directory", dir, ""))
              /\ roots' = Tail(roots)
              /\ stack' = stack
         ELSE /\ Commit(w1)
              /\ roots' = roots
              /\ stack' = <<[dir |-> dir, items |-> readdirSync(fs, dir)]>>
  /\ UNCHANGED <<analyzerVars, startVars, config, dryRun, now, fs0,
                 rlOpen, pc, exitCode, answers>>

\* The loop body for an item on which statSync throws: the exception leaves the
\* loop and is caught at the end of scanDirectory, which returns.
VisitStatError ==
  /\ pc = "scan" /\ stack # <<>> /\ Top.items # <<>>
  /\ statThrows(fs, join(Top.dir, Head(Top.items)))
  /\ stack' = [stack EXCEPT ![Len(stack)].items = <<>>]
  /\ Commit(Say(World, "Error scanning directory", Top.dir, ""))
  /\ UNCHANGED <<analyzerVars, startVars, config, dryRun, now, fs0,
                 rlOpen, pc, roots, exitCode, answers>>

\* The loop body for a subdirectory: the recursive call starts.
VisitDirectory ==
  /\ pc = "scan" /\ stack # <<>> /\ Top.items # <<>>
  /\ LET itemPath == join(Top.dir, Head(Top.items))
     IN  /\ ~statThrows(fs, itemPath)
         /\ fs[itemPath].kind = "dir"
         /\ stack' = Append([stack EXCEPT ![Len(stack)].items = Tail(@)],
                            [dir |-> itemPath, items |-> readdirSync(fs, itemPath)])
  /\ UNCHANGED <<analyzerVars, startVars, config, dryRun, now, fs0,
                 fs, logFile, console, question, rlOpen, pc,
                 roots, exitCode, proposed, removed, answers>>

\* The loop body for a file.
VisitFile ==
  /\ pc = "scan" /\ stack # <<>> /\ Top.items # <<>>
  /\ LET itemPath == join(Top.dir, Head(Top.items))
     IN  /\ ~statThrows(fs, itemPath)
         /\ fs[itemPath].kind = "file"
         /\ LET class == classifyFile(fs, itemPath)
            IN  Commit(IF class = "essential"
                       THEN Say(World, "Skipping essential file", itemPath, "")
                       ELSE IF class = "keep" THEN World
                       ELSE handleFileDeletion(World, itemPath, class))
  /\ stack' = [stack EXCEPT ![Len(stack)].items = Tail(@)]
  /\ UNCHANGED <<analyzerVars, startVars, config, dryRun, now, fs0,
                 rlOpen, pc, roots, exitCode, answers>>

\* scanDirectory returns: to the loop body of the parent directory, which tests
\* the scanned subdirectory for removal, or to runCleanup.
LeaveDirectory ==
  /\ pc = "scan" /\ stack # <<>> /\ Top.items = <<>>
  /\ stack' = SubSeq(stack, 1, Len(stack) - 1)
  /\ IF Len(stack) > 1
     THEN /\ roots' = roots
          /\ Commit(IF isRemovableDirectory(fs, Top.dir)
                    THEN handleDirectoryDeletion(World, Top.dir, "Empty directory")
                    ELSE World)
     ELSE /\ roots' = Tail(roots)
          /\ Commit(World)
  /\ UNCHANGED <<analyzerVars, startVars, config, dryRun, now, fs0,
                 rlOpen, pc, exitCode, answers>>

\* runCleanup: the special handling of the empty frontend directory.
HandleFrontend ==
  /\ pc = "scan" /\ stack = <<>> /\ roots = <<>>
  /\ pc' = "sweep"
  /\ Commit(IF /\ config.options.removeEmptyFrontend
               /\ existsSync(fs, frontendDir)
               /\ isEmptyDir(fs, frontendDir)
            THEN (IF dryRun
                  THEN Say(Propose(World, "dir", frontendDir, "Empty directory"),
                           "Would delete empty frontend directory", frontendDir, "")
                  ELSE handleDirectoryDeletion(World, frontendDir, "Empty directory"))
            ELSE World)
  /\ UNCHANGED <<analyzerVars, startVars, config, dryRun, now, fs0,
                 rlOpen, roots, stack, exitCode, answers>>

\* runCleanup: utils.cleanupOldBackups().
CleanupOldBackups ==
  /\ pc = "sweep"
  /\ pc' = "finish"
  /\ Commit(cleanupOldBackups(World))
  /\ UNCHANGED <<analyzerVars, startVars, config, dryRun, now, fs0,
                 rlOpen, roots, stack, exitCode, answers>>

\* The end of runCleanup and of the script: a dry run closes the readline
\* interface, and with nothing left to wait for the process ends with status 0;
\* otherwise the process waits for input.
FinishRun ==
  /\ pc = "finish"
  /\ IF dryRun
     THEN /\ Commit(Say(World, "This was a dry run", <<>>, ""))
          /\ rlOpen' = FALSE
          /\ pc' = "exited"
          /\ exitCode' = 0
     ELSE /\ Commit(World)
          /\ rlOpen' = rlOpen
          /\ pc' = "waiting"
          /\ exitCode' = exitCode
  /\ UNCHANGED <<analyzerVars, startVars, config, dryRun, now, fs0,
                 roots, stack, answers>>

\* A line is read while a question is pending: its callback runs.
AnswerLine ==
  /\ pc = "waiting" /\ rlOpen /\ question # NoQuestion
  /\ \E answer \in AnswerChoices :
       /\ Commit(questionCallback([World EXCEPT !.question = NoQuestion],
                                  question, answer))
       /\ answers' = Append(answers, [path |-> question.path, answer |-> answer])
  /\ UNCHANGED <<analyzerVars, startVars, config, dryRun, now, fs0,
                 rlOpen, pc, roots, stack, exitCode>>

\* The input ends: readline closes, the 'close' listener exits with status 0.
EndOfInput ==
  /\ pc = "waiting" /\ rlOpen
  /\ rlOpen' = FALSE
  /\ pc' = "exited"
  /\ exitCode' = 0
  /\ Commit(Say(World, "Cleanup completed!", <<>>, ""))
  /\ UNCHANGED <<analyzerVars, startVars, config, dryRun, now, fs0,
                 roots, stack, answers>>

\* SIGINT with a handler that prints its message and leaves readline open.
SigintLeavingPromptOpen ==
  /\ pc = "waiting" /\ rlOpen
  /\ ~(\E i \in 1..Len(console) : console[i].msg = "Cleanup aborted by user")
  /\ Commit(Say(World, "Cleanup aborted by user", <<>>, ""))
  /\ UNCHANGED <<analyzerVars, startVars, config, dryRun, now, fs0,
                 rlOpen, pc, exitCode, roots, stack, answers>>

\* SIGINT: the handler closes readline, whose 'close' listener exits.
Sigint ==
  /\ pc = "waiting" /\ rlOpen
  /\ rlOpen' = FALSE
  /\ pc' = "exited"
  /\ exitCode' = 0
  /\ Commit(Say(Say(World, "Cleanup aborted by user", <<>>, ""),
                "Cleanup completed!", <<>>, ""))
  /\ UNCHANGED <<analyzerVars, startVars, config, dryRun, now, fs0,
                 roots, stack, answers>>

Next ==
  \/ RunCleanupStart
  \/ ScanRoot
  \/ VisitStatError
  \/ VisitDirectory
  \/ VisitFile
  \/ LeaveDirectory
  \/ HandleFrontend
  \/ CleanupOldBackups
  \/ FinishRun
  \/ AnswerLine
  \/ EndOfInput
  \/ Sigint

Spec == Init /\ [][Next]_vars

SpecSweep == InitSweep /\ [][Next]_vars

\* Any project tree and either mode, with the shipped essential directories,
\* and a log file that can or cannot be appended to.
InitLog ==
  /\ now = Midnight + 10 * 3600
  /\ config \in {c \in ConfigChoices : c.essentialDirectories = essentialDirectories}
  /\ dryRun \in BOOLEAN
  /\ \E F \in FileSets : \E a \in AgeMaps(F) :
       fs = BuildFs(F, a, {"2024-01-01"}, now)
  /\ logWritable \in BOOLEAN
  /\ LauncherIdle
  /\ Loaded

SpecLog == InitLog /\ [][Next]_vars

\* The world in which another process has removed itemPath.
Vanished(w, itemPath) ==
  [w EXCEPT !.fs = Without(@, itemPath),
            !.removed = @ \cup {[path |-> itemPath, by |-> "another process"]}]

\* What the file branch of scanDirectory does in world w for a file of this class.
fileBranch(w, itemPath, class) ==
  IF class = "essential"
  THEN Say(w, "Skipping essential file", itemPath, "")
  ELSE IF class = "keep" THEN w
  ELSE handleFileDeletion(w, itemPath, class)

\* The loop body for a file that another process removes after the statSync of
\* scanDirectory has returned: the tests by name are made as for any file,
\* and the statSync of isRecentlyAccessed throws.
VisitFileStatFails ==
  /\ pc = "scan" /\ stack # <<>> /\ Top.items # <<>>
  /\ ~statThrows(fs, join(Top.dir, Head(Top.items)))
  /\ fs[join(Top.dir, Head(Top.items))].kind = "file"
  /\ Commit(fileBranch(Vanished(World, join(Top.dir, Head(Top.items))),
                       join(Top.dir, Head(Top.items)),
                       classifyFile(Without(fs, join(Top.dir, Head(Top.items))),
                                    join(Top.dir, Head(Top.items)))))
  /\ stack' = [stack EXCEPT ![Len(stack)].items = Tail(@)]
  /\ UNCHANGED <<analyzerVars, startVars, config, dryRun, now, fs0,
                 rlOpen, pc, roots, exitCode, answers>>

NextVanish == Next \/ VisitFileStatFails

\* Any project tree and either mode, with the shipped configuration but for
\* the prompt and backup options.
InitVanish ==
  /\ now = Midnight + 10 * 3600
  /\ config \in {c \in ConfigChoices :
                   /\ c.essentialDirectories = essentialDirectories
                   /\ c.options.removeEmptyDirectories
                   /\ c.options.removeEmptyFrontend}
  /\ dryRun \in BOOLEAN
  /\ \E F \in FileSets : \E a \in AgeMaps(F) :
       fs = BuildFs(F, a, {"2024-01-01"}, now)
  /\ logWritable = TRUE
  /\ LauncherIdle
  /\ Loaded

SpecVanish == InitVanish /\ [][NextVanish]_vars

\* config.backupRetentionDays as shipped, and 0: keep no backup of an earlier day.
RetentionChoices == {backupRetentionDays, 0}

\* The runs of InitVanish at either clock, with either retention.
InitRetention ==
  /\ now \in NowChoices
  /\ config \in {[c EXCEPT !.backupRetentionDays = r] :
                   c \in {k \in ConfigChoices :
                            /\ k.essentialDirectories = essentialDirectories
                            /\ k.options.removeEmptyDirectories
                            /\ k.options.removeEmptyFrontend},
                   r \in RetentionChoices}
  /\ dryRun \in BOOLEAN
  /\ \E F \in FileSets : \E a \in AgeMaps(F) :
       fs = BuildFs(F, a, {"2024-01-01"}, now)
  /\ logWritable = TRUE
  /\ LauncherIdle
  /\ Loaded

SpecRetention == InitRetention /\ [][Next]_vars

\* SIGINT while runCleanup is still running: process.on('SIGINT') has not
\* been called yet, so the signal has its default effect and ends the process
\* where it is, between two calls of the file system.
SigintBeforeHandler ==
  /\ script = "cleanup" /\ pc \in {"start", "scan", "sweep", "finish"}
  /\ pc' = "exited"
  /\ exitCode' = 128 + 2
  /\ rlOpen' = FALSE
  /\ UNCHANGED <<analyzerVars, startVars, config, dryRun, now, fs, fs0, logFile, console,
                 question, roots, stack, proposed, removed, answers>>

NextInterrupt == Next \/ SigintBeforeHandler

SpecInterrupt == InitVanish /\ [][NextInterrupt]_vars

\* VisitFile can be taken: what ENABLED <<VisitFile>>_vars says.
VisitFileEnabled ==
  /\ pc = "scan" /\ stack # <<>> /\ Top.items # <<>>
  /\ ~statThrows(fs, join(Top.dir, Head(Top.items)))
  /\ fs[join(Top.dir, Head(Top.items))].kind = "file"

\* CleanupOldBackups can be taken: what ENABLED <<CleanupOldBackups>>_vars says.
CleanupOldBackupsEnabled == pc = "sweep"

\* AnswerLine can be taken: what ENABLED <<AnswerLine>>_vars says.
AnswerLineEnabled == pc = "waiting" /\ rlOpen /\ question # NoQuestion

\* The process is never kept from a step it can take by itself, and a question
\* asked is answered; the input may never end and no interrupt may ever come.
\* The conditions on VisitFile, CleanupOldBackups and AnswerLine are weak
\* fairness with ENABLED written out.
RunFairness ==
  /\ WF_vars(RunCleanupStart)
  /\ WF_vars(ScanRoot)
  /\ WF_vars(VisitStatError)
  /\ WF_vars(VisitDirectory)
  /\ ([]<>(~VisitFileEnabled) \/ []<><<VisitFile>>_vars)
  /\ WF_vars(LeaveDirectory)
  /\ WF_vars(HandleFrontend)
  /\ ([]<>(~CleanupOldBackupsEnabled) \/ []<><<CleanupOldBackups>>_vars)
  /\ WF_vars(FinishRun)
  /\ ([]<>(~AnswerLineEnabled) \/ []<><<AnswerLine>>_vars)

SpecLive == InitSweep /\ [][Next]_vars /\ RunFairness

(***************************************************************************)
(* Runs made one after the other                                           *)
(***************************************************************************)
\* At most MaxRuns runs of the tool are made in succession.
MaxRuns == 2

\* Once the process has exited the tool is started again, in the same mode,
\* with the same configuration file and clock, on the file system and the
\* deletion log the run before left.
RunAgain ==
  /\ script = "cleanup" /\ pc = "exited" /\ run < MaxRuns
  /\ run' = run + 1
  /\ previous' = [console |-> console, proposed |-> proposed]
  /\ fs0' = fs
  /\ console' = <<>>
  /\ question' = NoQuestion
  /\ rlOpen' = TRUE
  /\ pc' = "start"
  /\ roots' = <<>>
  /\ stack' = <<>>
  /\ exitCode' = -1
  /\ proposed' = <<>>
  /\ removed' = {}
  /\ answers' = <<>>
  /\ UNCHANGED <<analyzerVars, launcherVars, script, configFile, logWritable, config, dryRun, now, fs,
                 logFile>>

NextTwice == Next \/ RunAgain

SpecTwice == InitSweep /\ [][NextTwice]_vars

(***************************************************************************)
(* The structure analyzer (src/unnamed/part_002)                           *)
(***************************************************************************)
\* The configuration the analyzer builds when cleanup-config.json is absent.
analyzerDefaultConfig ==
  [directories |-> << <<"src">>, <<"backend">>, <<"database">>, <<"public">> >>,
   essentialDirectories |-> {"node_modules", "src", "backend", "public"}]

\* daysDifference > 90 in utils.isLikelyUnused
unusedDays == 90

\* stats.size > 1024 * 1024 in utils.isLargeFile
largeFileBytes == 1024 * 1024

IsUpper(c) == \E i \in 1..Len(UpperChars) : UpperChars[i] = c

IsLower(c) == \E i \in 1..Len(LowerChars) : LowerChars[i] = c

IsAlnum(c) == IsUpper(c) \/ IsLower(c) \/ IsDigit(c)

\* /^[A-Z][A-Za-z0-9]*$/
PascalCase(s) == s # <<>> /\ IsUpper(s[1]) /\ \A i \in 2..Len(s) : IsAlnum(s[i])

\* /^[a-z][A-Za-z0-9]*$/
camelCase(s) == s # <<>> /\ IsLower(s[1]) /\ \A i \in 2..Len(s) : IsAlnum(s[i])

\* /^[a-z][a-z0-9-]*$/
kebabCase(s) ==
  /\ s # <<>> /\ IsLower(s[1])
  /\ \A i \in 2..Len(s) : IsLower(s[i]) \/ IsDigit(s[i]) \/ s[i] = "-"

\* path.basename(filePath, ext): the characters of the base name, without ext
\* when the name ends with exactly ext.
basenameWithout(filePath, ext) ==
  LET name == chars(basename(filePath))
  IN  IF /\ ext # <<>> /\ Len(ext) < Len(name)
         /\ SubSeq(name, Len(name) - Len(ext) + 1, Len(name)) = ext
      THEN SubSeq(name, 1, Len(name) - Len(ext))
      ELSE name

\* filePath.includes('/<name>/')
includesDir(filePath, name) == \E i \in 2..(Len(filePath) - 1) : filePath[i] = name

\* utils.checkNamingConvention: the issues found, in the order they are pushed.
checkNamingConvention(filePath) ==
  LET ext == toLowerCase(extname(filePath))
      baseName == basenameWithout(filePath, ext)
  IN  (IF /\ ext \in {<<".", "j", "s", "x">>, <<".", "t", "s", "x">>}
          /\ includesDir(filePath, "components")
          /\ ~PascalCase(baseName)
       THEN <<"should use PascalCase">> ELSE <<>>)
      \o
      (IF /\ ext \in {<<".", "j", "s">>, <<".", "t", "s">>}
          /\ (includesDir(filePath, "utils") \/ includesDir(filePath, "hooks"))
          /\ ~camelCase(baseName)
       THEN <<"should use camelCase">> ELSE <<>>)
      \o
      (IF /\ ext \in {<<".", "c", "s", "s">>, <<".", "s", "c", "s", "s">>}
          /\ ~kebabCase(baseName)
       THEN <<"should use kebab-case">> ELSE <<>>)

\* The SHA-256 digest of a content: equal digests for equal contents only.
sha256(content) == <<"sha256", content>>

\* utils.calculateFileHash: null when the file cannot be read.
calculateFileHash(f, filePath) ==
  IF filePath \notin DOMAIN f \/ f[filePath].kind # "file" \/ ~f[filePath].readable
  THEN null
  ELSE sha256(f[filePath].content)

\* /package(-lock)?\.json$/, /tsconfig.*\.json$/, /README\.md$/
protectedPatterns == {
  [start |-> FALSE, end |-> TRUE,
   alts |-> {<<<<"p", "a", "c", "k", "a", "g", "e", ".", "j", "s", "o", "n">>>>, <<<<"p", "a", "c", "k", "a", "g", "e", "-", "l", "o", "c", "k", ".", "j", "s", "o", "n">>>>}],
  [start |-> FALSE, end |-> TRUE, alts |-> {<<<<"t", "s", "c", "o", "n", "f", "i", "g">>, <<".", "j", "s", "o", "n">>>>}],
  [start |-> FALSE, end |-> TRUE, alts |-> {<<<<"R", "E", "A", "D", "M", "E", ".", "m", "d">>>>}] }

\* filePath.includes('node_modules'): the text occurs in a name of the path.
includesNodeModules(filePath) ==
  \E i \in 1..Len(filePath) :
    \E k \in 1..Len(chars(filePath[i])) :
      OccursAt(chars("node_modules"), chars(filePath[i]), k)

\* utils.isLikelyUnused with three times the configured threshold in place of
\* the 90 days.
isLikelyUnusedByConfig(f, filePath) ==
  IF statThrows(f, filePath) THEN FALSE
  ELSE IF \/ includesNodeModules(filePath)
          \/ \E pattern \in protectedPatterns :
               RegExpTest(pattern, chars(basename(filePath)))
  THEN FALSE
  ELSE IF "accessThresholdDays" \in DOMAIN config
  THEN now - f[filePath].atime > 3 * config.accessThresholdDays * SecondsPerDay
  ELSE now - f[filePath].atime > unusedDays * SecondsPerDay

\* utils.isLikelyUnused: false when statSync throws.
isLikelyUnused(f, filePath) ==
  IF statThrows(f, filePath) THEN FALSE
  ELSE IF \/ includesNodeModules(filePath)
          \/ \E pattern \in protectedPatterns :
               RegExpTest(pattern, chars(basename(filePath)))
  THEN FALSE
  ELSE now - f[filePath].atime > unusedDays * SecondsPerDay

\* utils.isLargeFile
isLargeFile(f, filePath) ==
  IF statThrows(f, filePath) THEN FALSE ELSE f[filePath].size > largeFileBytes

\* The number of 1024 steps utils.formatSize takes for this size, from unit k.
RECURSIVE unitIndex(_, _)
unitIndex(bytes, k) ==
  IF bytes >= 1024 /\ k < 4 THEN unitIndex(bytes \div 1024, k + 1) ELSE k

RECURSIVE pow1024(_)
pow1024(k) == IF k = 0 THEN 1 ELSE 1024 * pow1024(k - 1)

\* utils.formatSize: the size in hundredths of its unit, rounded as toFixed(2)
\* does, and the unit.
formatSize(bytes) ==
  [hundredths |-> (2 * 100 * bytes + pow1024(unitIndex(bytes, 0)))
                    \div (2 * pow1024(unitIndex(bytes, 0))),
   unit |-> <<"B", "KB", "MB", "GB", "TB">>[unitIndex(bytes, 0) + 1]]

\* The duplicate tracking with a repeated digest merged into the group the
\* digest already has.
trackDuplicateMerging(dups, hashes, fileHash, itemRelPath) ==
  IF fileHash = null THEN [dups |-> dups, hashes |-> hashes]
  ELSE IF fileHash \in DOMAIN hashes
  THEN [dups |->
          IF \E i \in 1..Len(dups) : dups[i].hash = fileHash
          THEN [i \in 1..Len(dups) |->
                  IF dups[i].hash = fileHash
                  THEN [dups[i] EXCEPT !.files = Append(@, itemRelPath)]
                  ELSE dups[i]]
          ELSE Append(dups, [hash |-> fileHash,
                             files |-> <<hashes[fileHash], itemRelPath>>]),
        hashes |-> hashes]
  ELSE [dups |-> dups, hashes |-> (fileHash :> itemRelPath) @@ hashes]

\* The duplicate tracking with the first path kept for a digest replaced by the
\* path just visited.
trackDuplicateFromLatest(dups, hashes, fileHash, itemRelPath) ==
  IF fileHash = null THEN [dups |-> dups, hashes |-> hashes]
  ELSE IF fileHash \in DOMAIN hashes
  THEN [dups |-> Append(dups, [hash |-> fileHash,
                               files |-> <<hashes[fileHash], itemRelPath>>]),
        hashes |-> (fileHash :> itemRelPath) @@ hashes]
  ELSE [dups |-> dups, hashes |-> (fileHash :> itemRelPath) @@ hashes]

\* The duplicate tracking of analyzeDirectory: a file whose digest was seen is
\* pushed as a pair with the first path of that digest, unless that pair is
\* already there; otherwise it becomes the first path of its digest.
trackDuplicate(dups, hashes, fileHash, itemRelPath) ==
  IF fileHash = null THEN [dups |-> dups, hashes |-> hashes]
  ELSE IF fileHash \in DOMAIN hashes
  THEN [dups |->
          IF \E i \in 1..Len(dups) :
               /\ dups[i].hash = fileHash
               /\ \E j \in 1..Len(dups[i].files) : dups[i].files[j] = hashes[fileHash]
               /\ \E j \in 1..Len(dups[i].files) : dups[i].files[j] = itemRelPath
          THEN dups
          ELSE Append(dups, [hash |-> fileHash,
                             files |-> <<hashes[fileHash], itemRelPath>>]),
        hashes |-> hashes]
  ELSE [dups |-> dups, hashes |-> (fileHash :> itemRelPath) @@ hashes]

\* analysis.fileTypes[ext] = (analysis.fileTypes[ext] || 0) + 1
countType(fileTypes, ext) ==
  (ext :> (IF ext \in DOMAIN fileTypes THEN fileTypes[ext] + 1 ELSE 1)) @@ fileTypes

\* path.extname(item).toLowerCase() || 'no-extension'
typeOf(itemPath) ==
  IF extname(itemPath) = <<>> THEN <<"no-extension">> ELSE toLowerCase(extname(itemPath))

\* What the file branch of analyzeDirectory does to the analysis object.
analyzeFile(a, hashes, f, itemPath) ==
  [a EXCEPT
     !.fileTypes = countType(@, typeOf(itemPath)),
     !.namingIssues =
        @ \o [i \in 1..Len(checkNamingConvention(itemPath)) |->
                [file |-> itemPath, issue |-> checkNamingConvention(itemPath)[i]]],
     !.largeFiles =
        IF isLargeFile(f, itemPath)
        THEN Append(@, [file |-> itemPath, size |-> formatSize(f[itemPath].size)])
        ELSE @,
     !.potentialDuplicates =
        trackDuplicate(@, hashes, calculateFileHash(f, itemPath), itemPath).dups,
     !.unusedFiles =
        IF isLikelyUnused(f, itemPath)
        THEN Append(@, [file |-> itemPath, lastAccessed |-> f[itemPath].atime])
        ELSE @]

\* console.log / console.error of the analyzer
Log(msg, path) == Append(console, [msg |-> msg, path |-> path, reason |-> ""])

\* What the analyzer never writes.
cleanupVars == <<dryRun, fs, fs0, logFile, question, rlOpen, proposed, removed, answers>>

\* The top of the analyzer script: the configuration is loaded; a file that
\* is there but cannot be read or parsed ends the process with status 1.
AnalyzerLoadConfig ==
  /\ script = "analyzer" /\ pc = "load"
  /\ IF ~configFile.exists
     THEN /\ config' = analyzerDefaultConfig
          /\ console' = Log("Config file not found, using defaults", <<>>)
          /\ pc' = "main"
          /\ exitCode' = exitCode
     ELSE IF configFile.parses
     THEN /\ config' = configFile.data
          /\ console' = Log("Configuration loaded from cleanup-config.json", <<>>)
          /\ pc' = "main"
          /\ exitCode' = exitCode
     ELSE /\ config' = config
          /\ console' = Log("Error loading configuration", <<>>)
          /\ pc' = "exited"
          /\ exitCode' = 1
  /\ UNCHANGED <<analyzerVars, startVars, cleanupVars, now, roots, stack>>

\* main() up to its loop over config.directories.
AnalyzerMain ==
  /\ script = "analyzer" /\ pc = "main"
  /\ pc' = "analyze"
  /\ roots' = config.directories
  /\ console' = Log("Starting main analysis function...", <<>>)
  /\ UNCHANGED <<analyzerVars, startVars, cleanupVars, config, now, stack, exitCode>>

NoStats == [size |-> 0, files |-> 0, directories |-> 0]

\* main() calls analyzeDirectory(dirPath, dirPath) for a configured directory
\* that exists; one that cannot be listed is reported by analyzeDirectory.
AnalyzeRoot ==
  /\ script = "analyzer" /\ pc = "analyze" /\ stack = <<>> /\ roots # <<>>
  /\ LET dir == Head(roots)
     IN  IF ~existsSync(fs, dir)
         THEN /\ console' = Log("Directory does not exist", dir)
              /\ roots' = Tail(roots)
              /\ stack' = stack
         ELSE IF fs[dir].kind # "dir"
         THEN /\ console' = Log("Error analyzing directory", dir)
              /\ roots' = Tail(roots)
              /\ stack' = stack
         ELSE /\ console' = Log("Analyzing directory", dir)
              /\ roots' = roots
              /\ stack' = <<[dir |-> dir, items |-> readdirSync(fs, dir),
                             stats |-> NoStats]>>
  /\ UNCHANGED <<analyzerVars, startVars, cleanupVars, config, now, pc, exitCode>>

\* The loop body for an item on which statSync throws: the error is caught
\* inside the loop, which goes on with the next item.
AnalyzeItemError ==
  /\ script = "analyzer" /\ pc = "analyze" /\ stack # <<>> /\ Top.items # <<>>
  /\ statThrows(fs, join(Top.dir, Head(Top.items)))
  /\ stack' = [stack EXCEPT ![Len(stack)].items = Tail(@)]
  /\ console' = Log("Error processing item", join(Top.dir, Head(Top.items)))
  /\ UNCHANGED <<analyzerVars, startVars, cleanupVars, config, now, pc, roots, exitCode>>

\* The loop body for a directory: node_modules is counted and skipped, any
\* other directory is analyzed by a recursive call.
AnalyzeSubdirectory ==
  /\ script = "analyzer" /\ pc = "analyze" /\ stack # <<>> /\ Top.items # <<>>
  /\ LET item == Head(Top.items)
         itemPath == join(Top.dir, item)
     IN  /\ ~statThrows(fs, itemPath)
         /\ fs[itemPath].kind = "dir"
         /\ IF item = "node_modules"
            THEN /\ stack' = [stack EXCEPT
                                ![Len(stack)].items = Tail(@),
                                ![Len(stack)].stats.directories = @ + 1,
                                ![Len(stack)].stats.size = @ + fs[itemPath].size]
                 /\ console' = Log("Skipping node_modules directory", itemPath)
            ELSE /\ stack' = Append([stack EXCEPT ![Len(stack)].items = Tail(@)],
                                    [dir |-> itemPath,
                                     items |-> readdirSync(fs, itemPath),
                                     stats |-> NoStats])
                 /\ console' = Log("Analyzing directory", itemPath)
  /\ UNCHANGED <<analyzerVars, startVars, cleanupVars, config, now, pc, roots, exitCode>>

\* The loop body for a file.
AnalyzeFile ==
  /\ script = "analyzer" /\ pc = "analyze" /\ stack # <<>> /\ Top.items # <<>>
  /\ LET itemPath == join(Top.dir, Head(Top.items))
     IN  /\ ~statThrows(fs, itemPath)
         /\ fs[itemPath].kind = "file"
         /\ stack' = [stack EXCEPT
                        ![Len(stack)].items = Tail(@),
                        ![Len(stack)].stats.files = @ + 1,
                        ![Len(stack)].stats.size = @ + fs[itemPath].size]
         /\ analysis' = analyzeFile(analysis, fileHashes, fs, itemPath)
         /\ fileHashes' = trackDuplicate(analysis.potentialDuplicates, fileHashes,
                                         calculateFileHash(fs, itemPath),
                                         itemPath).hashes
         /\ console' =
              IF calculateFileHash(fs, itemPath) = null
              THEN Log("Error calculating hash", itemPath)
              ELSE console
  /\ UNCHANGED <<startVars, cleanupVars, config, now, pc, roots, exitCode>>

\* analyzeDirectory returns: the statistics of the directory are stored and
\* added to those of the calling directory.
AnalyzeLeave ==
  /\ script = "analyzer" /\ pc = "analyze" /\ stack # <<>> /\ Top.items = <<>>
  /\ analysis' =
       [analysis EXCEPT !.directoryStats =
          (Top.dir :> [size |-> formatSize(Top.stats.size),
                       files |-> Top.stats.files,
                       directories |-> Top.stats.directories]) @@ @]
  /\ console' = Log("Finished analyzing", Top.dir)
  /\ IF Len(stack) > 1
     THEN /\ roots' = roots
          /\ stack' = [SubSeq(stack, 1, Len(stack) - 1) EXCEPT
                         ![Len(stack) - 1].stats =
                            [size |-> @.size + Top.stats.size,
                             files |-> @.files + Top.stats.files,
                             directories |-> @.directories + Top.stats.directories + 1]]
     ELSE /\ roots' = Tail(roots)
          /\ stack' = <<>>
  /\ UNCHANGED <<fileHashes, startVars, cleanupVars, config, now, pc, exitCode>>

\* generateReport and the end of main: the sections of the analysis object
\* are printed, and the process ends with nothing left to do.
GenerateReport ==
  /\ script = "analyzer" /\ pc = "analyze" /\ stack = <<>> /\ roots = <<>>
  /\ console' = Append(console, [msg |-> "PROJECT STRUCTURE ANALYSIS", path |-> <<>>,
                                 reason |-> analysis])
  /\ pc' = "exited"
  /\ exitCode' = 0
  /\ UNCHANGED <<analyzerVars, startVars, cleanupVars, config, now, roots, stack>>

NextAnalyzer ==
  \/ AnalyzerLoadConfig
  \/ AnalyzerMain
  \/ AnalyzeRoot
  \/ AnalyzeItemError
  \/ AnalyzeSubdirectory
  \/ AnalyzeFile
  \/ AnalyzeLeave
  \/ GenerateReport

(***************************************************************************)
(* Inputs of the analyzer: cleanup-config.json and the project tree.       *)
(***************************************************************************)
\* getDefaultConfig() with another staleness threshold.
getDefaultConfigShortThreshold ==
  [directories |-> directories,
   essentialDirectories |-> essentialDirectories,
   accessThresholdDays |-> 10,
   backupRetentionDays |-> backupRetentionDays,
   options |-> defaultOptions]

\* getDefaultConfig() of project-cleanup.cjs.
getDefaultConfig ==
  [directories |-> directories,
   essentialDirectories |-> essentialDirectories,
   accessThresholdDays |-> accessThresholdDays,
   backupRetentionDays |-> backupRetentionDays,
   options |-> defaultOptions]

\* The shipped cleanup-config.json.
shippedConfig ==
  [directories |-> << <<"src">>, <<"backend">>, <<"database">>, <<"public">> >>,
   essentialDirectories |->
     {"node_modules", "src", "backend", "public", "controllers", "models", "routes",
      "config", "components", "contexts", "pages", "services", "hooks", "utils", "lib"},
   accessThresholdDays |-> 30,
   backupRetentionDays |-> 14,
   options |-> [promptBeforeDeletion |-> TRUE, removeEmptyDirectories |-> TRUE,
                removeEmptyFrontend |-> TRUE, createBackups |-> TRUE]]

\* config before the file is loaded: declared, not assigned.
undefined == [directories |-> <<>>]

\* cleanup-config.json: absent, not valid JSON, as shipped, or as shipped
\* with a threshold of ten days.
ConfigFileChoices == {
  [exists |-> FALSE, parses |-> FALSE, data |-> undefined],
  [exists |-> TRUE, parses |-> FALSE, data |-> undefined],
  [exists |-> TRUE, parses |-> TRUE, data |-> shippedConfig],
  [exists |-> TRUE, parses |-> TRUE,
   data |-> [shippedConfig EXCEPT !.accessThresholdDays = 10]] }

\* At most MaxAnalyzedFiles entries in the tree the analyzer walks.
MaxAnalyzedFiles == 3

\* The entries the tree may hold: where, what statSync finds, the days since
\* the last access, whether the file can be read, its bytes and their number.
AnalyzedCandidates == {
  [path |-> join(join(SrcDir, "components"), "App.tsx"), kind |-> "file", age |-> 91,
   readable |-> TRUE, content |-> "A", size |-> 1],
  [path |-> join(join(SrcDir, "components"), "copy.tsx"), kind |-> "file", age |-> 40,
   readable |-> TRUE, content |-> "A", size |-> 1],
  [path |-> join(BackendDir, "old.bak"), kind |-> "file", age |-> 91,
   readable |-> TRUE, content |-> "A", size |-> largeFileBytes + 1],
  [path |-> join(BackendDir, "busy.log"), kind |-> "file", age |-> unusedDays,
   readable |-> FALSE, content |-> "A", size |-> largeFileBytes],
  [path |-> join(BackendDir, "link"), kind |-> "dangling", age |-> 40,
   readable |-> FALSE, content |-> "", size |-> 0],
  [path |-> join(BackendDir, "node_modules"), kind |-> "dir", age |-> 0,
   readable |-> TRUE, content |-> "", size |-> 0],
  [path |-> join(SrcDir, "package.json"), kind |-> "file", age |-> 91,
   readable |-> TRUE, content |-> "B", size |-> 1],
  [path |-> join(SrcDir, "debug.LOG"), kind |-> "file", age |-> unusedDays,
   readable |-> TRUE, content |-> "B", size |-> 1],
  [path |-> join(frontendDir, "index.html"), kind |-> "file", age |-> 91,
   readable |-> TRUE, content |-> "A", size |-> 1] }

AnalyzedSets ==
  {F \in SUBSET AnalyzedCandidates : Cardinality(F) <= MaxAnalyzedFiles}

entryOf(F, q) == CHOOSE c \in F : c.path = q

\* The file system with the entries F, at time t.
BuildAnalyzerFs(F, t) ==
  [q \in ProjectDirs \cup {c.path : c \in F} |->
     IF q \in {c.path : c \in F}
     THEN [kind |-> entryOf(F, q).kind,
           atime |-> t - entryOf(F, q).age * SecondsPerDay,
           readable |-> entryOf(F, q).readable, busy |-> FALSE,
           content |-> entryOf(F, q).content, size |-> entryOf(F, q).size]
     ELSE DirEntry]

\* The analyzer is started in any tree of at most MaxAnalyzedFiles entries,
\* with any of the configuration files.
InitAnalyzer ==
  /\ script = "analyzer"
  /\ configFile \in ConfigFileChoices
  /\ config = undefined
  /\ now = Midnight + 10 * 3600
  /\ \E F \in AnalyzedSets : fs = BuildAnalyzerFs(F, now)
  /\ fs0 = fs
  /\ dryRun = TRUE
  /\ logFile = <<>>
  /\ console = <<>>
  /\ question = NoQuestion
  /\ rlOpen = FALSE
  /\ pc = "load"
  /\ roots = <<>>
  /\ stack = <<>>
  /\ exitCode = -1
  /\ proposed = <<>>
  /\ removed = {}
  /\ answers = <<>>
  /\ analysis = emptyAnalysis
  /\ fileHashes = <<>>
  /\ run = 1
  /\ previous = NoRun
  /\ logWritable = TRUE
  /\ LauncherIdle

SpecAnalyzer == InitAnalyzer /\ [][NextAnalyzer]_vars

\* cleanup-config.json as shipped, or with directories that overlap: 'src' and
\* 'src/components', the second inside the first.
OverlapConfigFileChoices == {
  [exists |-> TRUE, parses |-> TRUE, data |-> shippedConfig],
  [exists |-> TRUE, parses |-> TRUE,
   data |-> [shippedConfig EXCEPT
               !.directories = << SrcDir, join(SrcDir, "components"), BackendDir >>]] }

\* The analyzer started with one of these configuration files.
InitOverlap ==
  /\ script = "analyzer"
  /\ configFile \in OverlapConfigFileChoices
  /\ config = undefined
  /\ now = Midnight + 10 * 3600
  /\ \E F \in AnalyzedSets : fs = BuildAnalyzerFs(F, now)
  /\ fs0 = fs
  /\ dryRun = TRUE
  /\ logFile = <<>>
  /\ console = <<>>
  /\ question = NoQuestion
  /\ rlOpen = FALSE
  /\ pc = "load"
  /\ roots = <<>>
  /\ stack = <<>>
  /\ exitCode = -1
  /\ proposed = <<>>
  /\ removed = {}
  /\ answers = <<>>
  /\ analysis = emptyAnalysis
  /\ fileHashes = <<>>
  /\ run = 1
  /\ previous = NoRun
  /\ logWritable = TRUE
  /\ LauncherIdle

SpecOverlap == InitOverlap /\ [][NextAnalyzer]_vars

(***************************************************************************)
(* Both scripts from their first line: the configuration file is loaded.   *)
(***************************************************************************)
\* The top of project-cleanup.cjs: the configuration file is read and parsed;
\* when it is absent, or when reading or parsing throws, getDefaultConfig()
\* is used.
LoadConfig ==
  /\ script = "cleanup" /\ pc = "load"
  /\ IF configFile.exists /\ configFile.parses
     THEN /\ config' = configFile.data
          /\ console' = Log("Configuration loaded from cleanup-config.json", <<>>)
     ELSE IF ~configFile.exists
     THEN /\ config' = getDefaultConfig
          /\ console' = Log("Configuration file not found, using default configuration",
                            <<>>)
     ELSE /\ config' = getDefaultConfig
          /\ console' = Append(Log("Error loading configuration", <<>>),
                               [msg |-> "Using default configuration", path |-> <<>>,
                                reason |-> ""])
  /\ pc' = "start"
  /\ UNCHANGED <<analyzerVars, startVars, dryRun, now, fs, fs0, logFile, question, rlOpen,
                 roots, stack, exitCode, proposed, removed, answers>>

\* Either script is started with any of the configuration files: the cleanup
\* tool in either mode on the tree of the retention sweep, the analyzer on any
\* of its trees.
InitScripts ==
  /\ script \in {"cleanup", "analyzer"}
  /\ configFile \in ConfigFileChoices
  /\ config = undefined
  /\ now = Midnight + 10 * 3600
  /\ IF script = "cleanup"
     THEN /\ dryRun \in BOOLEAN
          /\ rlOpen = TRUE
          /\ \E a \in AgeMaps(SweepFiles) :
               fs = BuildFs(SweepFiles, a, {"2024-01-01"}, now)
     ELSE /\ dryRun = TRUE
          /\ rlOpen = FALSE
          /\ \E F \in AnalyzedSets : fs = BuildAnalyzerFs(F, now)
  /\ fs0 = fs
  /\ logFile = <<>>
  /\ console = <<>>
  /\ question = NoQuestion
  /\ pc = "load"
  /\ roots = <<>>
  /\ stack = <<>>
  /\ exitCode = -1
  /\ proposed = <<>>
  /\ removed = {}
  /\ answers = <<>>
  /\ analysis = emptyAnalysis
  /\ fileHashes = <<>>
  /\ run = 1
  /\ previous = NoRun
  /\ logWritable = TRUE
  /\ LauncherIdle

NextScripts == LoadConfig \/ Next \/ NextAnalyzer

SpecScripts == InitScripts /\ [][NextScripts]_vars

(***************************************************************************)
(* The development server launcher                                         *)
(***************************************************************************)
\* CONFIG.maxStartTimeSeconds
maxStartTimeSeconds == 30

\* At most MaxChunks chunks are read from the services' stdout and stderr.
MaxChunks == 2

Backend == "Backend API"

Frontend == "Frontend"

\* CONFIG.backend.readyMessage and CONFIG.frontend.readyMessage, word by word.
readyMessage ==
  [n \in ServiceNames |-> IF n = Backend THEN <<"Server", "running">> ELSE <<"Local:">>]

\* String.prototype.includes
includes(text, searchString) ==
  \E i \in 0..(Len(text) - Len(searchString)) :
    SubSeq(text, i + 1, i + Len(searchString)) = searchString

\* What the launcher's functions and handlers read and write.
Launcher ==
  [console |-> console, pc |-> pc, exitCode |-> exitCode, proc |-> proc,
   ready |-> ready, timeout |-> timeout, elapsed |-> elapsed, output |-> output]

CommitLauncher(l) ==
  /\ console' = l.console
  /\ pc' = l.pc
  /\ exitCode' = l.exitCode
  /\ proc' = l.proc
  /\ ready' = l.ready
  /\ timeout' = l.timeout
  /\ elapsed' = l.elapsed
  /\ output' = l.output
  /\ UNCHANGED <<analyzerVars, cleanupVars, config, now, roots, stack, script,
                 configFile, run, previous, logWritable>>

\* console.log / console.error of the launcher; stream is "stdout" or "stderr"
\* for a chunk of a service that is echoed.
Tell(l, msg, text, stream) ==
  [l EXCEPT !.console = Append(@, [msg |-> msg, path |-> text, reason |-> stream])]

\* checkEnvFiles
checkEnvFiles(l) ==
  LET l1 == IF existsSync(fs, <<"backend", ".env">>) THEN l
            ELSE Tell(l, "Backend .env file not found!", <<>>, "")
  IN  IF existsSync(fs, <<".env">>) THEN l1
      ELSE Tell(l1, "Root .env file not found!", <<>>, "")

\* startService up to the return of its promise: the child is spawned and the
\* startup timer set.
startService(l, name) ==
  [Tell(l, "Starting", <<name>>, "") EXCEPT
     !.proc[name] = [state |-> "running", exitCode |-> null],
     !.ready[name] = FALSE,
     !.output[name] = <<>>,
     !.timeout[name] = "armed",
     !.elapsed[name] = 0]

\* clearTimeout(timeout): nothing reads the elapsed time of a cleared timer.
clearTimeout(l, name) ==
  IF l.timeout[name] = "armed"
  THEN [l EXCEPT !.timeout[name] = "cleared", !.elapsed[name] = 0]
  ELSE l

\* startAll is suspended on the promise of startService(name).
awaited(l, name) ==
  \/ name = Backend /\ l.pc = "backend"
  \/ name = Frontend /\ l.pc = "frontend"

\* reject(error): when startAll awaits the promise, its catch block prints the
\* failure and calls process.exit(1); a settled promise ignores the call.
reject(l, name, message) ==
  IF awaited(l, name)
  THEN [Tell(l, "Failed to start development environment", <<name, message>>, "")
          EXCEPT !.pc = "exited", !.exitCode = 1]
  ELSE l

\* resolve(proc): startAll goes on after its await: after the backend it
\* starts the frontend, after the frontend it prints the access points and
\* installs the SIGINT and SIGTERM handlers.
resolve(l, name) ==
  IF ~awaited(l, name) THEN l
  ELSE IF name = Backend
  THEN startService([l EXCEPT !.pc = "frontend"], Frontend)
  ELSE [Tell(l, "Development environment is ready!", <<>>, "") EXCEPT !.pc = "up"]

\* The stdout handler with any chunk taken for the ready message.
onStdoutDataWhateverTheText(l, name, text) ==
  LET l1 == Tell([l EXCEPT !.output[name] = text], name, text, "stdout")
  IN  IF ~l.ready[name]
      THEN resolve(Tell(clearTimeout([l1 EXCEPT !.ready[name] = TRUE], name),
                        "is ready!", <<name>>, ""),
                   name)
      ELSE l1

\* proc.stdout.on('data')
onStdoutData(l, name, text) ==
  LET l1 == Tell([l EXCEPT !.output[name] = text], name, text, "stdout")
  IN  IF includes(text, readyMessage[name]) /\ ~l.ready[name]
      THEN resolve(Tell(clearTimeout([l1 EXCEPT !.ready[name] = TRUE], name),
                        "is ready!", <<name>>, ""),
                   name)
      ELSE l1

\* proc.stderr.on('data')
onStderrData(l, name, text) ==
  Tell([l EXCEPT !.output[name] = text], name, text, "stderr")

\* proc.on('error')
onError(l, name) ==
  reject(clearTimeout(Tell([l EXCEPT !.proc[name].state = "failed"],
                           "Failed to start", <<name>>, ""),
                      name),
         name, "error")

\* proc.on('close'): code is <<n>> for an exit status n, null for a child
\* ended by a signal.
onClose(l, name, code) ==
  LET l1 == [l EXCEPT !.proc[name] = [state |-> "closed", exitCode |-> code]]
  IN  IF code # <<0>> /\ ~l.ready[name]
      THEN reject(clearTimeout(Tell(l1, "exited with code", <<name>>, ""), name),
                  name, "exited")
      ELSE l1

\* The callback of the startup timer.
onTimeout(l, name) ==
  LET l1 == [l EXCEPT !.timeout[name] = "fired", !.elapsed[name] = 0]
  IN  IF ~l.ready[name]
      THEN reject(Tell(Tell(l1, "did not start within maxStartTimeSeconds seconds",
                            <<name>>, ""),
                       "Last output", l.output[name], ""),
                  name, "startup timeout")
      ELSE l1

\* cleanup, the SIGINT and SIGTERM handler startAll installs at its end.
cleanup(l) ==
  [Tell(l, "Shutting down development environment...", <<>>, "") EXCEPT
     !.proc = [n \in ServiceNames |->
                 IF @[n].state = "running" THEN [@[n] EXCEPT !.state = "killed"]
                 ELSE @[n]],
     !.pc = "exited",
     !.exitCode = 0]

\* A startup timer is due: Node runs the callbacks of due timers before it
\* polls for input.
TimerDue ==
  \E n \in ServiceNames : timeout[n] = "armed" /\ elapsed[n] >= maxStartTimeSeconds

\* The chunks read from the services so far.
ChunksRead ==
  Cardinality({i \in 1..Len(console) : console[i].reason \in {"stdout", "stderr"}})

\* What a service may write in one chunk: the ready line of the backend, the
\* beginning of that line, the ready line of the frontend.
ChunkChoices == {
  <<"Server", "running", "on", "port", "3001">>,
  <<"Server">>,
  <<"Local:", "http://localhost:5173/">> }

\* close codes: 0, 1, and null for a child ended by a signal.
CodeChoices == {<<0>>, <<1>>, null}

\* startAll up to its first await, on killProcessOnPort(CONFIG.backend.port).
StartAll ==
  /\ script = "launcher" /\ pc = "start"
  /\ CommitLauncher([Tell(Tell(Launcher, "Starting development environment...", <<>>, ""),
                          "Ensuring ports are available...", <<>>, "")
                       EXCEPT !.pc = "backend port"])

\* The callback of exec resolves the first killProcessOnPort, whether the
\* command failed or not; startAll awaits the second.
BackendPortFreed ==
  /\ script = "launcher" /\ pc = "backend port"
  /\ CommitLauncher([Launcher EXCEPT !.pc = "frontend port"])

\* The second killProcessOnPort has resolved: checkEnvFiles, then the backend
\* is started and startAll awaits it.
FrontendPortFreed ==
  /\ script = "launcher" /\ pc = "frontend port"
  /\ CommitLauncher(startService([checkEnvFiles(Launcher) EXCEPT !.pc = "backend"],
                                 Backend))

LauncherRuns == script = "launcher" /\ pc \in {"backend", "frontend", "up"}

\* A second passes.
Tick ==
  /\ LauncherRuns /\ ~TimerDue
  /\ \E n \in ServiceNames : timeout[n] = "armed"
  /\ CommitLauncher([Launcher EXCEPT
                       !.elapsed = [n \in ServiceNames |->
                                      IF timeout[n] = "armed" THEN @[n] + 1 ELSE @[n]]])

StartupTimeout ==
  /\ LauncherRuns
  /\ \E n \in ServiceNames :
       /\ timeout[n] = "armed" /\ elapsed[n] >= maxStartTimeSeconds
       /\ CommitLauncher(onTimeout(Launcher, n))

ServiceStdout ==
  /\ LauncherRuns /\ ~TimerDue /\ ChunksRead < MaxChunks
  /\ \E n \in ServiceNames : \E text \in ChunkChoices :
       /\ proc[n].state = "running"
       /\ CommitLauncher(onStdoutData(Launcher, n, text))

ServiceStderr ==
  /\ LauncherRuns /\ ~TimerDue /\ ChunksRead < MaxChunks
  /\ \E n \in ServiceNames : \E text \in ChunkChoices :
       /\ proc[n].state = "running"
       /\ CommitLauncher(onStderrData(Launcher, n, text))

\* The child could not be spawned, or could not be killed or sent a message.
ServiceError ==
  /\ LauncherRuns /\ ~TimerDue
  /\ \E n \in ServiceNames :
       /\ proc[n].state = "running"
       /\ CommitLauncher(onError(Launcher, n))

\* The child has ended and its streams are closed.
ServiceClose ==
  /\ LauncherRuns /\ ~TimerDue
  /\ \E n \in ServiceNames : \E code \in CodeChoices :
       /\ proc[n].state \in {"running", "failed"}
       /\ CommitLauncher(onClose(Launcher, n, code))

\* SIGINT or SIGTERM once the handlers are installed.
Shutdown ==
  /\ script = "launcher" /\ pc = "up"
  /\ CommitLauncher(cleanup(Launcher))

NextLauncher ==
  \/ StartAll
  \/ BackendPortFreed
  \/ FrontendPortFreed
  \/ Tick
  \/ StartupTimeout
  \/ ServiceStdout
  \/ ServiceStderr
  \/ ServiceError
  \/ ServiceClose
  \/ Shutdown

\* The .env files checkEnvFiles looks for.
EnvFileChoices == SUBSET {<<".env">>, <<"backend", ".env">>}

\* node start-dev.js: the launcher is started, with or without the .env files.
InitLauncher ==
  /\ script = "launcher"
  /\ configFile = [exists |-> FALSE, parses |-> FALSE, data |-> undefined]
  /\ config = undefined
  /\ now = Midnight + 10 * 3600
  /\ \E E \in EnvFileChoices :
       fs = [q \in E |-> [kind |-> "file", atime |-> now, readable |-> TRUE,
                          busy |-> FALSE, content |-> basename(q), size |-> 1]]
  /\ fs0 = fs
  /\ dryRun = TRUE
  /\ logFile = <<>>
  /\ console = <<>>
  /\ question = NoQuestion
  /\ rlOpen = FALSE
  /\ pc = "start"
  /\ roots = <<>>
  /\ stack = <<>>
  /\ exitCode = -1
  /\ proposed = <<>>
  /\ removed = {}
  /\ answers = <<>>
  /\ analysis = emptyAnalysis
  /\ fileHashes = <<>>
  /\ run = 1
  /\ previous = NoRun
  /\ logWritable = TRUE
  /\ LauncherIdle

SpecLauncher == InitLauncher /\ [][NextLauncher]_vars

(***************************************************************************)
(* Properties                                                              *)
(***************************************************************************)
\* The files and directories of the project tree when the run started.
InProject(p) == \E i \in 1..Len(directories) : Under(p, directories[i])

ProjectFiles == {p \in DOMAIN fs0 : fs0[p].kind = "file" /\ InProject(p)}

IsProposed(p) == \E i \in 1..Len(proposed) : proposed[i].path = p

IsProposedAs(p, reason) ==
  \E i \in 1..Len(proposed) : proposed[i].path = p /\ proposed[i].reason = reason

Said(msg, p) == \E i \in 1..Len(console) : console[i].msg = msg /\ console[i].path = p

\* The scan and the frontend handling are over.
ScanDone == pc \in {"sweep", "finish", "waiting", "exited"}

\* runCleanup has returned.
RunDone == pc \in {"waiting", "exited"}

\* The loop body of scanDirectory is about to run for the file p.
Visiting(p) ==
  /\ pc = "scan" /\ stack # <<>> /\ Top.items # <<>>
  /\ p = join(Top.dir, Head(Top.items))
  /\ ~statThrows(fs, p)
  /\ fs[p].kind = "file"

(* C1: in any run, dry or deleting, under any configuration, a file whose
   base name matches an essential pattern is never proposed for deletion
   and never deleted, whatever its extension and its last access. *)
C1_EssentialFilesKept ==
  \A p \in DOMAIN fs0 :
    (fs0[p].kind = "file" /\ (p \notin DOMAIN fs \/ IsProposed(p))) =>
      ~isEssentialFile(p)

\* A deleting run without prompt has skipped an essential file that has an
\* artifact extension and was last accessed long ago.
C1_Witness ==
  /\ ~dryRun /\ ~config.options.promptBeforeDeletion
  /\ \E p \in ProjectFiles :
       /\ isEssentialFile(p) /\ isBuildArtifact(p) /\ ~isRecentlyAccessed(fs0, p)
       /\ Said("Skipping essential file", p)

(* C2, as stated: a file directly under a directory whose name is in the
   essential-directory set is never proposed for deletion and never deleted. *)
C2_FilesOfEssentialDirectoryKept ==
  \A p \in ProjectFiles :
    isEssentialDirectory(dirname(p)) => (p \in DOMAIN fs /\ ~IsProposed(p))

(* C2, amended: the essential-directory set protects directories only.  When
   the walker visits a file directly under an essential directory, it
   proposes the file exactly when its own name matches no essential pattern
   and it is a build artifact or was not recently accessed; a file whose name
   matches an essential pattern is not proposed. *)
C2_FilesOfEssentialDirectoryClassified ==
  [][\A p \in ProjectFiles :
       (Visiting(p) /\ isEssentialDirectory(dirname(p))) =>
         /\ IsProposed(p)' <=>
              (~isEssentialFile(p) /\ (isBuildArtifact(p) \/ ~isRecentlyAccessed(fs, p)))
         /\ isEssentialFile(p) => (p \in DOMAIN fs' /\ ~IsProposed(p)')]_vars

\* A file directly under the essential directory src/components, with no
\* essential name, has been proposed as not recently accessed.
C2_Witness ==
  \E p \in ProjectFiles :
    /\ isEssentialDirectory(dirname(p)) /\ Len(p) = 3
    /\ ~isEssentialFile(p)
    /\ IsProposedAs(p, "Not recently accessed")

(* C3: a directory whose own name is in the essential-directory set is never
   proposed for deletion and never deleted by a run, even when it is empty:
   neither by the walk nor by the handling of 'frontend' in runCleanup. *)
C3_EssentialDirectoriesKept ==
  \A p \in DOMAIN fs0 :
    (fs0[p].kind = "dir" /\ ~Under(p, backupDir) /\ isEssentialDirectory(p)) =>
      (p \in DOMAIN fs /\ ~IsProposed(p))

(* C4: a dry run changes nothing on disk: the files and directories,
   the backup directory included, and the deletion log stay as they were. *)
C4_DryRunChangesNothing == dryRun => (fs = fs0 /\ logFile = <<>>)

\* The answers that are 'y' whatever the case.
YesAnswers == {<<"y">>, <<"Y">>}

AnsweredYes(p) ==
  \E i \in 1..Len(answers) : answers[i].path = p /\ answers[i].answer \in YesAnswers

\* The items deleteFile and deleteDirectory removed.
Deleted == {r.path : r \in {x \in removed : x.by \in {"deleteFile", "deleteDirectory"}}}

(* C5: in a deleting run with promptBeforeDeletion, an item is deleted only
   when the answer read for that very item was 'y' or 'Y', and an item for
   which any other answer was read, the empty one included, stays as it was.
   Without promptBeforeDeletion no question is ever asked and each proposed
   item is removed in the step that proposes it, unless the removal itself
   fails and is reported. *)
C5_DeletedOnlyOnYes ==
  ~dryRun =>
    IF config.options.promptBeforeDeletion
    THEN /\ \A p \in Deleted : AnsweredYes(p)
         /\ \A i \in 1..Len(answers) :
              answers[i].answer \notin YesAnswers =>
                /\ answers[i].path \in DOMAIN fs
                /\ fs[answers[i].path] = fs0[answers[i].path]
    ELSE /\ question = NoQuestion
         /\ answers = <<>>
         /\ \A i \in 1..Len(console) : console[i].msg # "prompt"
         /\ \A i \in 1..Len(proposed) :
              \/ proposed[i].path \in Deleted
              \/ Said("Error deleting file", proposed[i].path)
              \/ Said("Error deleting directory", proposed[i].path)

\* The answer 'Y' was read for an item, and the item has been deleted.
C5_Witness ==
  /\ ~dryRun /\ config.options.promptBeforeDeletion
  /\ \E i \in 1..Len(answers) :
       /\ answers[i].answer = <<"Y">>
       /\ answers[i].path \in DOMAIN fs0
       /\ answers[i].path \in Deleted
       /\ answers[i].path \notin DOMAIN fs

\* The files deleteFile removed.
DeletedFiles == {r.path : r \in {x \in removed : x.by = "deleteFile"}}

\* The deletion of p is in the log with this backup path.
LoggedWith(p, backupPath) ==
  \E i \in 1..Len(logFile) : logFile[i].path = p /\ logFile[i].backup = backupPath

\* The directories above path p exist.
DirectoriesAbove(f, p) ==
  \A k \in 1..(Len(p) - 1) :
    SubSeq(p, 1, k) \in DOMAIN f /\ f[SubSeq(p, 1, k)].kind = "dir"

(* C6, as stated: every file deleted in a deleting run has a copy at
   <backupRoot>/<today's date>/<its path relative to the project root>. *)
C6_EveryDeletedFileBackedUp ==
  \A p \in DeletedFiles : existsSync(fs, backupPathOf(p))

(* C6, amended: a file deleted while createBackups is set and whose copy
   succeeded has, from before its unlink on, a copy at <backupRoot>/<today's
   date>/<its path relative to the project root>, below directories created
   as needed, and its log line names that copy.  A file deleted while
   createBackups is not set, or whose copy failed, is deleted all the same,
   without a copy, and its log line names no backup. *)
C6_BackedUpWhenEnabledAndCopied ==
  \A p \in DeletedFiles :
    IF config.options.createBackups /\ fs0[p].readable
    THEN /\ existsSync(fs, backupPathOf(p))
         /\ fs[backupPathOf(p)].kind = "file"
         /\ DirectoriesAbove(fs, backupPathOf(p))
         /\ LoggedWith(p, backupPathOf(p))
    ELSE /\ backupPathOf(p) \notin DOMAIN fs
         /\ LoggedWith(p, null)

\* A file two directories deep has been deleted with its copy in today's
\* partition.
C6_Witness ==
  /\ ~dryRun /\ config.options.createBackups
  /\ \E p \in DeletedFiles :
       /\ Len(p) = 3
       /\ p \notin DOMAIN fs
       /\ existsSync(fs, backupPathOf(p))
       /\ dirname(backupPathOf(p)) \notin DOMAIN fs0

(* C7: a failure on one entry of a directory skips that entry alone: once
   the scan is over, every file that has a sibling on which statSync fails,
   and that is a build artifact or was not recently accessed, and has no
   essential name, has been proposed. *)
C7_SiblingsOfFailedEntryVisited ==
  ScanDone =>
    \A p \in ProjectFiles :
      (/\ \E q \in Children(fs0, dirname(p)) : statThrows(fs0, q)
       /\ classifyFile(fs0, p) \in {"Build artifact", "Not recently accessed"})
        => IsProposed(p)

\* The names found in the backup directory when the run started.
Partitions0 == {basename(p) : p \in Children(fs0, backupDir)}

\* cleanupOldBackups has returned.
SweepDone == pc \in {"finish", "waiting", "exited"}

\* The partition named d is still in the backup directory.
Retained(d) == join(backupDir, d) \in DOMAIN fs

(* C8: after the sweep, a partition found under a date name is gone exactly when
   the time elapsed since 00:00 UTC of that date is strictly more than
   backupRetentionDays days; an entry that is not named after a date stays.
   With a retention of 14 days and the clock on 2024-01-20, partition
   2024-01-01 is removed and partition 2024-01-20 retained; at 00:00 UTC,
   partition 2024-01-06, 14 days old, is retained and partition 2024-01-05,
   15 days old, is removed. *)
C8_RemovedIffOlderThanRetention ==
  (SweepDone /\ config.options.createBackups) =>
    /\ \A d \in Partitions0 :
         IF ParseDate(chars(d)).valid
         THEN ~Retained(d) <=>
                (now - ParseDate(chars(d)).time
                   > config.backupRetentionDays * SecondsPerDay)
         ELSE Retained(d)
    /\ "2024-01-01" \in Partitions0 => ~Retained("2024-01-01")
    /\ "2024-01-20" \in Partitions0 => Retained("2024-01-20")
    /\ now = Midnight =>
         /\ "2024-01-06" \in Partitions0 => Retained("2024-01-06")
         /\ "2024-01-05" \in Partitions0 => ~Retained("2024-01-05")

\* At 00:00 UTC of 2024-01-20 the sweep has kept the partition of 14 days and
\* removed the partition of 15 days.
C8_Witness ==
  /\ SweepDone /\ config.options.createBackups /\ now = Midnight
  /\ {"2024-01-05", "2024-01-06"} \subseteq Partitions0
  /\ Retained("2024-01-06")
  /\ ~Retained("2024-01-05")
  /\ Said("Removed old backup", join(backupDir, "2024-01-05"))

\* The backup directory holds a partition older than the retention.
ExpiredPartitionLeft ==
  \E p \in Children(fs, backupDir) :
    /\ ParseDate(chars(basename(p))).valid
    /\ now - ParseDate(chars(basename(p))).time
         > config.backupRetentionDays * SecondsPerDay

HasArtifactExtension(p) ==
  \E e \in artifactExtensions : toLowerCase(e) = toLowerCase(extname(p))

(* C10: when the walker visits a file with no essential name whose extension
   is, letter case ignored, an entry of the artifact set, it proposes the
   file as a build artifact. *)
C10_ArtifactWhateverTheCase ==
  [][\A p \in ProjectFiles :
       (Visiting(p) /\ ~isEssentialFile(p) /\ HasArtifactExtension(p)) =>
         IsProposedAs(p, "Build artifact")']_vars

\* The time since the last access of p, in seconds.
AgeOf(p) == now - fs0[p].atime

(* C11, as stated: when the walker visits a file with no essential name and
   no artifact extension, it proposes the file as 'Not recently accessed'
   exactly when the time since its last access is strictly more than
   accessThresholdDays days; a file aged exactly the threshold is not
   proposed. *)
C11_StaleWhenOlderThanThreshold ==
  [][\A p \in ProjectFiles :
       (Visiting(p) /\ ~isEssentialFile(p) /\ ~isBuildArtifact(p)) =>
         (IsProposedAs(p, "Not recently accessed")' <=>
            AgeOf(p) > config.accessThresholdDays * SecondsPerDay)]_vars

(* C11, amended: when the walker visits a file with no essential name and no
   artifact extension, it proposes the file as 'Not recently accessed'
   exactly when the time since its last access is at least
   accessThresholdDays days: a file aged exactly the threshold is proposed,
   only a file accessed less than accessThresholdDays days ago is not. *)
C11_StaleFromThreshold ==
  [][\A p \in ProjectFiles :
       (Visiting(p) /\ ~isEssentialFile(p) /\ ~isBuildArtifact(p)) =>
         /\ IsProposedAs(p, "Not recently accessed")' <=>
              AgeOf(p) >= config.accessThresholdDays * SecondsPerDay
         /\ IsProposed(p)' => IsProposedAs(p, "Not recently accessed")']_vars

\* A file aged exactly accessThresholdDays days has been proposed as not
\* recently accessed.
C11_Witness ==
  \E p \in ProjectFiles :
    /\ ~isEssentialFile(p) /\ ~isBuildArtifact(p)
    /\ AgeOf(p) = config.accessThresholdDays * SecondsPerDay
    /\ IsProposedAs(p, "Not recently accessed")

\* The directories the walk meets below the configured roots, when no entry
\* beside or above them makes statSync fail.
WalkedDirs ==
  {d \in DOMAIN fs0 :
     /\ fs0[d].kind = "dir" /\ InProject(d) /\ Len(d) >= 2
     /\ \A k \in 1..(Len(d) - 1) :
          \A q \in Children(fs0, SubSeq(d, 1, k)) : ~statThrows(fs0, q)}

\* proposed[i] comes before every proposal of a path above it.
ProposedBefore(p, d) ==
  \E i \in 1..Len(proposed) :
    /\ proposed[i].path = p
    /\ \A j \in 1..Len(proposed) : proposed[j].path = d => i < j

(* C12, as stated: once the walk is over, every non-essential directory that
   was empty has been proposed as 'Empty directory', and so has every
   non-essential directory that held nothing but directories proposed as
   empty. *)
C12_EmptyDirectoryThenParentProposed ==
  pc = "sweep" =>
    \A d \in WalkedDirs :
      ~isEssentialDirectory(d) =>
        /\ Children(fs0, d) = {} => IsProposedAs(d, "Empty directory")
        /\ (/\ Children(fs0, d) # {}
            /\ \A c \in Children(fs0, d) :
                 fs0[c].kind = "dir" /\ IsProposedAs(c, "Empty directory"))
             => IsProposedAs(d, "Empty directory")

(* C12, amended: the test is made after the directory's children were
   processed, and on the disk as it then is: once the walk is over, a
   directory met below a configured root has been proposed as 'Empty
   directory' exactly when removeEmptyDirectories is set, its name is not
   essential and nothing is left in it; whatever was proposed inside it was
   proposed before it.  A parent is thus proposed after its emptied child
   only when the child was really removed, in a deleting run without prompt;
   in a dry run, or while the confirmation is pending, the child is still
   there and the parent is not proposed. *)
C12_EmptyDirectoriesPostOrder ==
  /\ pc = "sweep" =>
       \A d \in WalkedDirs :
         IsProposedAs(d, "Empty directory") <=>
           /\ config.options.removeEmptyDirectories
           /\ ~isEssentialDirectory(d)
           /\ Children(fs, d) = {}
  /\ \A d \in WalkedDirs :
       /\ IsProposed(d) =>
            \A p \in DOMAIN fs0 :
              (Under(p, d) /\ p # d /\ IsProposed(p)) => ProposedBefore(p, d)
       /\ (IsProposed(d) /\ Children(fs0, d) # {}) =>
            (~dryRun /\ ~config.options.promptBeforeDeletion)

\* A deleting run without prompt has proposed and removed the empty directory
\* src/tmp/cache and then src/tmp, which held nothing else.
C12_Witness ==
  /\ ~dryRun /\ ~config.options.promptBeforeDeletion
  /\ \E d \in WalkedDirs : \E c \in Children(fs0, d) :
       /\ Children(fs0, d) = {c} /\ Children(fs0, c) = {}
       /\ IsProposedAs(c, "Empty directory") /\ IsProposedAs(d, "Empty directory")
       /\ ProposedBefore(c, d)
       /\ c \notin DOMAIN fs /\ d \notin DOMAIN fs

\* The analyzer has walked every configured directory and printed its report.
AnalysisDone == script = "analyzer" /\ pc = "exited" /\ exitCode = 0

\* The files the analyzer hashes: regular readable files below a configured
\* directory.
HashedFiles ==
  {p \in DOMAIN fs : /\ fs[p].kind = "file" /\ fs[p].readable
                     /\ \E i \in 1..Len(config.directories) :
                          Under(p, config.directories[i])}

\* The duplicate groups that list both p and q.
GroupsWith(p, q) ==
  {i \in 1..Len(analysis.potentialDuplicates) :
     /\ \E j \in 1..Len(analysis.potentialDuplicates[i].files) :
          analysis.potentialDuplicates[i].files[j] = p
     /\ \E j \in 1..Len(analysis.potentialDuplicates[i].files) :
          analysis.potentialDuplicates[i].files[j] = q}

SameContent(p) == {q \in HashedFiles : fs[q].content = fs[p].content}

\* C13 as stated: after an analysis pass, any two files of identical content
\* and different paths are listed together in exactly one duplicate group.
C13_IdenticalFilesInOneGroup ==
  AnalysisDone =>
    \A p \in HashedFiles : \A q \in SameContent(p) \ {p} :
      Cardinality(GroupsWith(p, q)) = 1

\* C13: after an analysis pass every duplicate group is a pair made of the
\* path kept for the digest and one other file of that content; every file of
\* a content other than the kept path is in exactly one group, with the kept
\* path; so two files that alone share a content are listed together exactly
\* once, and of three or more only the pairs with the kept path are listed.
C13_IdenticalFilesPairedWithFirst ==
  AnalysisDone =>
    /\ \A i \in 1..Len(analysis.potentialDuplicates) :
         /\ Len(analysis.potentialDuplicates[i].files) = 2
         /\ analysis.potentialDuplicates[i].hash \in DOMAIN fileHashes
         /\ analysis.potentialDuplicates[i].files[1]
              = fileHashes[analysis.potentialDuplicates[i].hash]
         /\ analysis.potentialDuplicates[i].files[2] \in HashedFiles
         /\ analysis.potentialDuplicates[i].files[2]
              # analysis.potentialDuplicates[i].files[1]
         /\ analysis.potentialDuplicates[i].hash
              = sha256(fs[analysis.potentialDuplicates[i].files[2]].content)
    /\ \A p \in HashedFiles :
         /\ sha256(fs[p].content) \in DOMAIN fileHashes
         /\ fileHashes[sha256(fs[p].content)] \in SameContent(p)
         /\ \A q \in SameContent(p) \ {p} :
              Cardinality(GroupsWith(p, q)) =
                IF fileHashes[sha256(fs[p].content)] \in {p, q} THEN 1 ELSE 0
         /\ Cardinality(SameContent(p)) = 2 =>
              \A q \in SameContent(p) \ {p} : Cardinality(GroupsWith(p, q)) = 1

\* Three files of one content were analyzed and two pairs were reported.
C13_Witness ==
  /\ AnalysisDone
  /\ Len(analysis.potentialDuplicates) = 2
  /\ \E p \in HashedFiles : Cardinality(SameContent(p)) = 3

\* C14: the second of two dry runs made in succession prints the messages and
\* makes the proposals of the first.
C14_SecondDryRunSameOutput ==
  (script = "cleanup" /\ dryRun /\ run = 2 /\ pc = "exited") =>
    (console = previous.console /\ proposed = previous.proposed)

\* cleanup-config.json is absent or cannot be parsed, and the script is past
\* its loading.
LoadedWithoutFile == pc # "load" /\ ~(configFile.exists /\ configFile.parses)

\* C15 as stated: with cleanup-config.json absent or unparsable, either script
\* runs on with a configuration equal to the shipped one and does not stop.
C15_FallsBackToShippedValues ==
  LoadedWithoutFile => (config = shippedConfig /\ exitCode # 1)

\* C15: with cleanup-config.json absent or unparsable the cleanup tool runs on
\* with the shipped values; the analyzer runs on only when the file is absent,
\* with the shipped directories and the first four essential directories and
\* no other setting, and stops with status 1, nothing analyzed, when the file
\* cannot be parsed.
C15_FallbackOfEachScript ==
  LoadedWithoutFile =>
    /\ script = "cleanup" => (config = shippedConfig /\ exitCode # 1)
    /\ (script = "analyzer" /\ ~configFile.exists) =>
         /\ config = analyzerDefaultConfig
         /\ config.directories = shippedConfig.directories
         /\ config.essentialDirectories \subseteq shippedConfig.essentialDirectories
         /\ config.essentialDirectories # shippedConfig.essentialDirectories
         /\ DOMAIN config = {"directories", "essentialDirectories"}
         /\ exitCode # 1
    /\ (script = "analyzer" /\ configFile.exists) =>
         /\ pc = "exited" /\ exitCode = 1
         /\ config = undefined
         /\ analysis = emptyAnalysis

\* The cleanup tool found a configuration file it could not parse, went on
\* with the default and proposed the artifact of the tree.
C15_Witness ==
  /\ script = "cleanup" /\ configFile.exists /\ ~configFile.parses
  /\ RunDone
  /\ config = shippedConfig
  /\ IsProposedAs(join(SrcDir, "debug.LOG"), "Build artifact")

\* The last line of log file l tells the deletion of p at the time of the
\* clock, with the reason p was proposed for, and names a backup exactly when
\* f holds the copy of p.
LastLineTells(l, f, p) ==
  /\ l[Len(l)].path = p
  /\ l[Len(l)].time = now
  /\ IsProposedAs(p, l[Len(l)].reason)
  /\ IF existsSync(f, backupPathOf(p))
     THEN l[Len(l)].backup = backupPathOf(p)
     ELSE l[Len(l)].backup = null

(* C16 as stated: the deletion log only grows, by one line for each item
   deleteFile or deleteDirectory removes: a step that deletes an item appends
   one line with the time, the path, the reason and the backup path if a copy
   was made; a step that deletes nothing, a failed deletion included, leaves
   the log as it is; the lines written before are never changed. *)
C16_OneLineAppendedPerDeletion ==
  [][/\ Len(logFile') >= Len(logFile)
     /\ SubSeq(logFile', 1, Len(logFile)) = logFile
     /\ Len(logFile') - Len(logFile) = Cardinality(Deleted' \ Deleted)
     /\ \A p \in Deleted' \ Deleted :
          /\ p \in DOMAIN fs /\ p \notin DOMAIN fs'
          /\ LastLineTells(logFile, fs, p)'
     /\ dryRun => logFile' = <<>>]_vars

(* C16, amended: the lines written before are never changed, and a step
   that deletes nothing leaves the log as it is; a step that deletes an item
   appends one line for it when the log file can be appended to, and
   otherwise prints the logging error and leaves the log as it is, the item
   staying deleted. *)
C16_OneLineAppendedWhenLogWritable ==
  [][/\ Len(logFile') >= Len(logFile)
     /\ SubSeq(logFile', 1, Len(logFile)) = logFile
     /\ Len(logFile') - Len(logFile) =
          IF logWritable THEN Cardinality(Deleted' \ Deleted) ELSE 0
     /\ \A p \in Deleted' \ Deleted :
          /\ p \in DOMAIN fs /\ p \notin DOMAIN fs'
          /\ IF logWritable
             THEN LastLineTells(logFile, fs, p)'
             ELSE Said("Error logging deletion", p)'
     /\ dryRun => logFile' = <<>>]_vars

\* A file was deleted with a backup and a directory after it, each with its
\* line, and the deletion of backend/busy.log failed.
C16_Witness ==
  /\ Len(logFile) >= 2
  /\ Len(logFile) = Cardinality(Deleted)
  /\ logFile[1].backup # null
  /\ \E i \in 2..Len(logFile) : logFile[i].backup = null
  /\ Said("Error deleting file", join(BackendDir, "busy.log"))

\* C17: every run ends with exit status 0 once the traversal and the sweep
\* are done and the questions asked are answered, whether or not the input
\* ends or an interrupt comes.
C17_EveryRunExitsWithZero == <>(pc = "exited" /\ exitCode = 0)

\* The files the analyzer examines: the regular files below a configured
\* directory.
AnalyzedFiles ==
  {p \in DOMAIN fs : /\ fs[p].kind = "file"
                     /\ \E i \in 1..Len(config.directories) :
                          Under(p, config.directories[i])}

\* The number of entries of the 'likely unused' list that name p.
UnusedEntries(p) ==
  Cardinality({i \in 1..Len(analysis.unusedFiles) : analysis.unusedFiles[i].file = p})

\* p is below a node_modules directory or has one of the protected names.
ProtectedFromUnused(p) ==
  \/ \E i \in 1..Len(p) : p[i] = "node_modules"
  \/ basename(p) \in {"package.json", "package-lock.json", "README.md"}

C19_ConfirmationBlocksTraversal ==
  [][question # NoQuestion => (pc' = pc /\ stack' = stack /\ roots' = roots)]_vars

\* The step reports the failure of the backup of p.
BackupFails(p) == ~Said("Error backing up", p) /\ Said("Error backing up", p)'

(* C20: the step in which the backup of a file fails prints the error,
   deletes the file all the same, leaves no copy and appends the log line of
   the file with no backup path; the run goes on: the process does not end,
   and a traversal in progress has moved to the entry after the file. *)
C20_FailedBackupDeletesAndGoesOn ==
  [][\A p \in ProjectFiles :
       BackupFails(p) =>
         /\ config.options.createBackups /\ ~dryRun
         /\ p \in DOMAIN fs /\ p \notin DOMAIN fs'
         /\ p \in DeletedFiles'
         /\ backupPathOf(p) \notin DOMAIN fs'
         /\ Len(logFile') = Len(logFile) + 1
         /\ logFile'[Len(logFile')].path = p
         /\ logFile'[Len(logFile')].backup = null
         /\ Said("Deleted file", p)'
         /\ ~Said("Backup created at", backupPathOf(p))'
         /\ pc' = pc /\ exitCode' = exitCode
         /\ pc = "scan" =>
              /\ Len(stack') = Len(stack)
              /\ stack'[Len(stack')].items = Tail(Top.items)]_vars

\* The backup of backend/old.bak failed, the file was deleted with a log line
\* naming no backup, and the empty frontend directory, handled after it, was
\* deleted and logged in its turn.
C20_Witness ==
  /\ Said("Error backing up", join(BackendDir, "old.bak"))
  /\ join(BackendDir, "old.bak") \in DeletedFiles
  /\ LoggedWith(join(BackendDir, "old.bak"), null)
  /\ frontendDir \in Deleted
  /\ \E i \in 1..Len(logFile) : \E j \in (i + 1)..Len(logFile) :
       /\ logFile[i].path = join(BackendDir, "old.bak")
       /\ logFile[j].path = frontendDir

\* The proposals made for p so far.
ProposalsOf(p) == {i \in 1..Len(proposed) : proposed[i].path = p}

(* C21: a visited file yields at most one proposal, and a file with no
   essential name that has an extension of the artifact set and was last
   accessed longer ago than the threshold is proposed once, as a build
   artifact. *)
C21_ArtifactRuleBeforeStaleness ==
  [][\A p \in ProjectFiles :
       Visiting(p) =>
         /\ Cardinality(ProposalsOf(p)') <= 1
         /\ (/\ ~isEssentialFile(p)
             /\ HasArtifactExtension(p)
             /\ AgeOf(p) > config.accessThresholdDays * SecondsPerDay) =>
              /\ Cardinality(ProposalsOf(p)') = 1
              /\ IsProposedAs(p, "Build artifact")']_vars

\* The step visits p just after another process has removed it, so that the
\* statSync of the staleness test throws.
StatFailsOn(p) ==
  /\ Visiting(p)
  /\ [path |-> p, by |-> "another process"] \in removed' \ removed

(* C22: a file with no artifact extension whose metadata cannot be read for
   the staleness test is taken for recently accessed: whatever its last
   access, the step proposes nothing for it and the tool deletes nothing. *)
C22_StatFailureMeansNotStale ==
  [][\A p \in ProjectFiles :
       StatFailsOn(p) =>
         /\ ~IsProposedAs(p, "Not recently accessed")'
         /\ ~isBuildArtifact(p) => (proposed' = proposed /\ question' = question)
         /\ p \notin Deleted'
         /\ logFile' = logFile]_vars

\* A file last accessed 40 days ago, neither essential nor an artifact, was
\* visited while its metadata could not be read, and nothing was proposed.
C22_Witness ==
  \E p \in ProjectFiles :
    /\ [path |-> p, by |-> "another process"] \in removed
    /\ ~isEssentialFile(p) /\ ~isBuildArtifact(p)
    /\ AgeOf(p) > config.accessThresholdDays * SecondsPerDay
    /\ ~IsProposed(p)
    /\ ScanDone

\* The duplicate groups recorded for digest h.
GroupsOf(h) ==
  {i \in 1..Len(analysis.potentialDuplicates) : analysis.potentialDuplicates[i].hash = h}

\* The files hashed so far: those of HashedFiles the pass has already visited.
HashedSoFar(h) ==
  {p \in HashedFiles :
     /\ sha256(fs[p].content) = h
     /\ \/ h \in DOMAIN fileHashes /\ fileHashes[h] = p
        \/ \E i \in GroupsOf(h) : analysis.potentialDuplicates[i].files[2] = p}

\* C23 as stated: at any moment of the analysis there is at most one
\* duplicate group for a content digest.
C23_OneGroupPerDigest ==
  script = "analyzer" =>
    \A i, j \in 1..Len(analysis.potentialDuplicates) :
      analysis.potentialDuplicates[i].hash = analysis.potentialDuplicates[j].hash
        => i = j

\* C23: at any moment of the analysis the groups are pairs, no pair is
\* recorded twice, and a digest has one group for each file visited with it
\* after the first: the third file of a digest adds a second group for that
\* digest, made of the first path and the third.
C23_OneGroupPerLaterFile ==
  script = "analyzer" =>
    /\ \A i, j \in 1..Len(analysis.potentialDuplicates) :
         analysis.potentialDuplicates[i] = analysis.potentialDuplicates[j] => i = j
    /\ \A i \in 1..Len(analysis.potentialDuplicates) :
         Len(analysis.potentialDuplicates[i].files) = 2
    /\ \A h \in DOMAIN fileHashes :
         Cardinality(GroupsOf(h)) = Cardinality(HashedSoFar(h)) - 1

\* A third file of a digest has been visited and the digest has two groups.
C23_Witness ==
  /\ script = "analyzer"
  /\ \E h \in DOMAIN fileHashes :
       /\ Cardinality(HashedSoFar(h)) = 3
       /\ Cardinality(GroupsOf(h)) = 2
       /\ \A i \in GroupsOf(h) : analysis.potentialDuplicates[i].files[1] = fileHashes[h]

\* A SIGINT has been handled: by the handler of the script, or by ending the
\* process before the handler was installed.
Interrupted ==
  \/ \E i \in 1..Len(console) : console[i].msg = "Cleanup aborted by user"
  \/ exitCode = 128 + 2

(* C24: once a SIGINT has been handled the prompt is closed and the process
   has exited; the step that handles it deletes nothing and writes no log
   line, no step after it changes the file system or the log, and an answer
   is never read for a question that was pending. *)
C24_NothingDeletedAfterInterrupt ==
  [][/\ Interrupted' => (pc' = "exited" /\ ~rlOpen')
     /\ (Interrupted \/ Interrupted') =>
          /\ fs' = fs /\ logFile' = logFile /\ removed' = removed
          /\ answers' = answers]_vars

\* The handler ran while a confirmation was pending: the process has exited
\* and the file asked about is still there.
C24_Witness ==
  /\ \E i \in 1..Len(console) : console[i].msg = "Cleanup aborted by user"
  /\ pc = "exited" /\ exitCode = 0
  /\ question # NoQuestion
  /\ question.path \in DOMAIN fs

(***************************************************************************)
(* C25                                                                     *)
(***************************************************************************)
\* The entries of the project, outside the backup root.
OutsideBackups(f) == {p \in DOMAIN f : ~Under(p, backupDir)}

(* C25: outside the backup root a directory leaves the disk only when it has
   no entry at that moment, and nothing else leaves the disk with it; and a
   directory is proposed for removal only while it has no entry.  Directories
   that still hold something are never removed. *)
C25_OnlyEmptyDirectoriesRemoved ==
  [][/\ \A d \in OutsideBackups(fs) :
          (fs[d].kind = "dir" /\ d \notin DOMAIN fs') =>
             /\ Children(fs, d) = {}
             /\ OutsideBackups(fs) \ {d} \subseteq DOMAIN fs'
     /\ \A i \in 1..Len(proposed') :
          (i > Len(proposed) /\ proposed'[i].kind = "dir") =>
             /\ proposed'[i].path \in DOMAIN fs
             /\ Children(fs, proposed'[i].path) = {}]_vars

\* A directory that held something at the start was emptied by the run and
\* then removed, while its parent directory, which holds other entries, stays.
C25_Witness ==
  \E r \in removed :
    /\ r.by = "deleteDirectory"
    /\ ~Under(r.path, backupDir)
    /\ r.path \notin DOMAIN fs
    /\ Children(fs0, r.path) # {}
    /\ SubSeq(r.path, 1, Len(r.path) - 1) \in DOMAIN fs

(***************************************************************************)
(* C26                                                                     *)
(***************************************************************************)
\* What scanDirectory requires of a file it hands to handleFileDeletion: no
\* essential name, and an artifact extension or a last access that is not recent.
Deletable(p) ==
  ~isEssentialFile(p) /\ (isBuildArtifact(p) \/ ~isRecentlyAccessed(fs0, p))

(* C26: every file proposal and every file deletion of a run concerns a file
   that had no essential name and was a build artifact or not recently
   accessed; every deleted file had been proposed; and a file with no
   essential name, no artifact extension and a recent access is still on disk
   and was never proposed. *)
C26_OnlyDeletableFilesTouched ==
  /\ \A i \in 1..Len(proposed) :
       proposed[i].kind = "file" => Deletable(proposed[i].path)
  /\ \A p \in DeletedFiles : IsProposed(p) /\ Deletable(p)
  /\ \A p \in ProjectFiles :
       (~isEssentialFile(p) /\ ~isBuildArtifact(p) /\ isRecentlyAccessed(fs0, p)) =>
          (p \in DOMAIN fs /\ fs[p] = fs0[p] /\ ~IsProposed(p))

\* A deleting run without prompt is over the walk: it deleted a file, and a
\* recently accessed file with no essential name and no artifact extension
\* that lies in the same directory is untouched.
C26_Witness ==
  /\ ~dryRun /\ ScanDone
  /\ \E p \in DeletedFiles :
       \E q \in ProjectFiles :
          /\ dirname(q) = dirname(p)
          /\ ~isEssentialFile(q) /\ ~isBuildArtifact(q) /\ isRecentlyAccessed(fs0, q)
          /\ q \in DOMAIN fs

(***************************************************************************)
(* C27                                                                     *)
(***************************************************************************)
(* C27: in a deleting run, whatever backupRetentionDays and with or without
   prompt, every backup copy the run made is still in the backup directory
   once the run's retention sweep is over: the partition of today's date
   survives the run that wrote to it. *)
C27_FreshBackupsSurviveSweep ==
  (~dryRun /\ SweepDone) =>
    \A i \in 1..Len(logFile) :
      logFile[i].backup # null =>
        /\ logFile[i].backup \in DOMAIN fs
        /\ join(backupDir, nameOf(ISODate(now))) \in DOMAIN fs

(***************************************************************************)
(* C28                                                                     *)
(***************************************************************************)
(* C28: when a dry run has finished, the 'close' listener of the readline
   interface has run: 'Cleanup completed!' has been printed and the process
   has exited with status 0. *)
C28_DryRunEndsThroughCloseListener ==
  (dryRun /\ pc = "exited") =>
    (Said("Cleanup completed!", <<>>) /\ exitCode = 0)

(***************************************************************************)
(* C29                                                                     *)
(***************************************************************************)
(* C29: no duplicate group of the analyzer lists the same path twice, also
   when the configured directories overlap and a file is visited more than
   once in one analysis: a file is never reported as a duplicate of itself. *)
C29_NoPathTwiceInAGroup ==
  script = "analyzer" =>
    \A i \in 1..Len(analysis.potentialDuplicates) :
      \A j, k \in 1..Len(analysis.potentialDuplicates[i].files) :
        analysis.potentialDuplicates[i].files[j] = analysis.potentialDuplicates[i].files[k]
          => j = k

(***************************************************************************)
(* C30                                                                     *)
(***************************************************************************)
\* The launcher has echoed a stdout chunk of the backend that holds the
\* backend's ready message.
BackendPrintedReady ==
  \E i \in 1..Len(console) :
    /\ console[i].msg = Backend /\ console[i].reason = "stdout"
    /\ includes(console[i].path, readyMessage[Backend])

\* The backend failed to start: an 'error' event, a close with a status other
\* than 0, or the startup timer running out, each before the backend was ready.
BackendFailedToStart ==
  /\ ~ready[Backend]
  /\ \/ proc[Backend].state = "failed"
     \/ proc[Backend].state = "closed" /\ proc[Backend].exitCode # <<0>>
     \/ timeout[Backend] = "fired"

(* C30: the launcher has spawned the frontend only if the backend has printed
   its ready message on stdout; the backend is not waited for longer than
   maxStartTimeSeconds; and once the backend has emitted an error, has closed
   with a status other than 0 before being ready, or has let the startup
   timer run out, the launcher has exited with status 1 and the frontend has
   not been spawned. *)
C30_FrontendOnlyAfterBackendReady ==
  script = "launcher" =>
    /\ proc[Frontend].state # "none" => BackendPrintedReady
    /\ elapsed[Backend] <= maxStartTimeSeconds
    /\ BackendFailedToStart =>
         (pc = "exited" /\ exitCode = 1 /\ proc[Frontend].state = "none")

\* The backend wrote the beginning of its ready line on stdout and the whole
\* line on stderr, neither of which makes it ready: the startup timer ran out
\* after maxStartTimeSeconds and the launcher exited with status 1 without
\* the frontend.
C30_Witness ==
  /\ script = "launcher" /\ pc = "exited" /\ exitCode = 1
  /\ timeout[Backend] = "fired"
  /\ proc[Frontend].state = "none"
  /\ \E i, j \in 1..Len(console) :
       /\ console[i].msg = Backend /\ console[i].reason = "stdout"
       /\ console[i].path = <<"Server">>
       /\ console[j].msg = Backend /\ console[j].reason = "stderr"
       /\ includes(console[j].path, readyMessage[Backend])

=============================================================================
